---------------------------- MODULE Spec2Model ----------------------------
(***************************************************************************)
(* State-machine model of the libnuphase / beacon DAQ driver.              *)
(*                                                                         *)
(* Two drivers live in the repository: src/beacondaq.c and the older      *)
(* src/nuphasedaq.c.  The variable variant says which                     *)
(* driver's handle is being exercised.  The boards themselves are modelled *)
(* as a four-slot ring of event buffers behind the SPI register interface. *)
(***************************************************************************)
EXTENDS Integers, Sequences, FiniteSets, TLC

(***************************************************************************)
(* Program constants                                                       *)
(***************************************************************************)
NBD == 1                 \* #define NBD(d) (1)
NUM_BUFFER == 4          \* BN_NUM_BUFFER / NP_NUM_BUFFER: four ring buffers
BUF_MASK == 15           \* #define BUF_MASK 0xf

MASTER == 0
SLAVE == 1

Variants == {"beacon", "nuphase"}
Threads == {"t1", "t2"}

(***************************************************************************)
(* Bounds of the model                                                     *)
(***************************************************************************)
MaxEvents == 3           \* triggers the hardware accepts between counter resets
MaxTimeout == 2          \* largest positive timeout, in poll intervals
MaxReadouts == 3         \* largest value of the software event counter explored
MaxQueue == 3            \* most frames left queued in a batch by failed transfers
MaxCal == 1              \* calibration rounds of an aligning reset
MaxBoardId == 4          \* largest value board_id_counter reaches by open
MaxBusCalls == 2          \* operations started on the bus
MaxAppends == 1030       \* transfers one caller appends to a transfer list
MaxAddresses == 8        \* RAM addresses of the longest buffer read
MaxWaitReads == 2        \* calls of wait_for_and_read_multiple_events
MaxFailures == 2         \* ioctls that fail while a full list is sent by an append

Timeouts == {-1} \cup (1..MaxTimeout)   \* -1 stands for any non-positive timeout

(***************************************************************************)
(* Bit-mask helpers (beacon_buffer_mask_t is a 4-bit mask)                 *)
(***************************************************************************)
RECURSIVE Pow2(_)
Pow2(n) == IF n = 0 THEN 1 ELSE 2 * Pow2(n - 1)

Bit(m, i) == (m \div Pow2(i)) % 2

RECURSIVE PopCountFrom(_, _)
PopCountFrom(m, i) == IF i >= NUM_BUFFER THEN 0 ELSE Bit(m, i) + PopCountFrom(m, i + 1)
PopCount(m) == PopCountFrom(m, 0)              \* __builtin_popcount

RECURSIVE CtzFrom(_, _)
CtzFrom(m, i) == IF i >= NUM_BUFFER \/ Bit(m, i) = 1 THEN i ELSE CtzFrom(m, i + 1)
Ctz(m) == CtzFrom(m, 0)                        \* __builtin_ctz (m # 0)

ClearBits(m, c) ==                             \* m & ~c on four bits
  LET F[i \in 0..NUM_BUFFER] ==
        IF i = NUM_BUFFER THEN 0
        ELSE (IF Bit(m, i) = 1 /\ Bit(c, i) = 0 THEN Pow2(i) ELSE 0) + F[i + 1]
  IN F[0]

SetBit(m, i) == IF Bit(m, i) = 1 THEN m ELSE m + Pow2(i)

VARIABLES
  variant,          \* which driver owns the handle
  enable_locking,   \* d->enable_locking
  has_slave,        \* d->fd[1] != 0
  cancel_wait,      \* d->cancel_wait (volatile int)
  wait_mut,         \* d->wait_mut is locked
  mut,              \* d->mut (bus mutex) is locked
  hardware_next,    \* d->hardware_next
  next_read_buffer, \* d->next_read_buffer
  event_counter,    \* d->event_counter
  pc,               \* per thread: position inside wait
  loc,              \* per thread: locals of wait (something, interrupted, timeout, waited)
  ret,              \* per thread: return value of its last wait call
  ready_out,        \* per thread: *ready_buffers as last written by wait
  hw,               \* the board: ready mask, per-buffer event counter, counter, fill pointer
  obs,              \* observations of the wait calls (history)
  pre,              \* history of a cancel issued with no wait in progress
  rd,               \* record of the last readout / reset / header-check call (history)
  hdrs,             \* event numbers of the headers returned since the last counter reset
  txq,              \* d->buf[b][0..nused[b]-1]: queued transfers per board
  wire,             \* the last synchronized command and the (board, frame) pairs it delivered
  dev,              \* d->buffer_length, d->pretrigger and the board's trigger-enable and
                    \* cal-pulser registers
  proc              \* the process: board_id_counter, the device nodes locked, the handles

vars == <<variant, enable_locking, has_slave, cancel_wait, wait_mut, mut, hardware_next,
          next_read_buffer, event_counter, pc, loc, ret, ready_out, hw, obs, pre, rd,
          hdrs, txq, wire, dev, proc>>

readVars == <<next_read_buffer, event_counter, rd, hdrs>>
cfgVars == <<variant, enable_locking, has_slave, proc>>
devVars == <<cfgVars, dev>>

(***************************************************************************)
(* The board                                                               *)
(***************************************************************************)
HwInit == [ready |-> 0, evt |-> [b \in 0..(NUM_BUFFER - 1) |-> 0], count |-> 0, fill |-> 0]

\* A trigger stores one event in the next free ring buffer and counts it.
HwTriggered(h) ==
  [ready |-> SetBit(h.ready, h.fill),
   evt   |-> [h.evt EXCEPT ![h.fill] = h.count + 1],
   count |-> h.count + 1,
   fill  |-> (h.fill + 1) % NUM_BUFFER]

CanTrigger(h) == Bit(h.ready, h.fill) = 0 /\ h.count < MaxEvents

\* REG_CLEAR with payload mask: the named buffers are released and hold no event.
HwCleared(h, mask) ==
  [h EXCEPT !.ready = ClearBits(h.ready, mask),
            !.evt = [b \in 0..(NUM_BUFFER - 1) |-> IF Bit(mask, b) = 1 THEN 0 ELSE h.evt[b]]]

\* REG_STATUS: byte 3 low nibble = ready mask, byte 2 bits 4-5 = next buffer
StatusMask(h) == h.ready % (BUF_MASK + 1)
StatusNext(h) == h.fill % 4

\* beacon_trigger_enable_t and its image in REG_TRIG_ENABLE (bytes 2 and 3 of the word)
Enables(bf, b8, b4a, b4b) ==
  [enable_beamforming |-> bf, enable_beam8 |-> b8, enable_beam4a |-> b4a,
   enable_beam4b |-> b4b]

\* beacon_set_trigger_enables: {REG_TRIG_ENABLE, 0, beam8 | beam4a << 1 | beam4b << 2,
\* beamforming}
EncodeEnables(e) ==
  [b2 |-> e.enable_beam8 + 2 * e.enable_beam4a + 4 * e.enable_beam4b,
   b3 |-> e.enable_beamforming]

\* beacon_get_trigger_enables
DecodeEnables(r) ==
  Enables(r.b3 % 2, r.b2 % 2, (r.b2 \div 2) % 2, (r.b2 \div 4) % 2)

DefaultBufferLength == 624     \* dev->buffer_length = 624 in beacon_open
CalibBufferLength == 1024      \* d->buffer_length = 1024 during the ADC alignment

\* dev->poll_interval = 500 is assigned before memset(dev, 0, sizeof(*dev)),
\* so the new handle carries poll_interval 0.
DefaultPollInterval == 500

DevInit ==
  [buffer_length |-> DefaultBufferLength, pretrigger |-> 0,
   trig_enable |-> EncodeEnables(Enables(0, 0, 0, 0)), calpulse |-> 0,
   poll_interval |-> 0]

\* the idle step of the beacon wait loop: usleep(poll_interval) when the
\* interval is not zero, sched_yield() otherwise.
PollStep(d) == IF d.poll_interval # 0 THEN "usleep" ELSE "sched_yield"

(***************************************************************************)
(* The process: the static board_id_counter, the advisory locks on the     *)
(* device nodes and the handles that open returned.  beacon_open / _close, *)
(* src/beacondaq.c 661-810 and 879-928; nuphase_open / _close,             *)
(* src/nuphasedaq.c 378-456 and 525-556.                                   *)
(***************************************************************************)
Nodes == {"spidev1", "spidev2"}
Slots == 1..2                  \* handles alive at the same time
OpenFails == {"none", "open_master", "open_slave", "reset"}

NoHandle == [live |-> FALSE, master |-> "none", slave |-> "none", board_id |-> <<0, 0>>]
ProcInit ==
  [board_id_counter |-> 1, locks |-> {}, released |-> {},
   handles |-> [h \in Slots |-> NoHandle]]

\* The result of one open: the process afterwards, the slot of the handle returned
\* (0 = null), and the number of descriptors the call opened and did not close or
\* hand to the handle.
Opened(p, slot, fds) == [proc |-> p, ret |-> slot, left_fds |-> fds]

\* flock(fd, LOCK_EX | LOCK_NB) on a fresh descriptor of node: refused when any
\* other open description, in this process or another, holds the lock
FlockRefused_Ignored(p, node, busy) == FALSE

FlockRefused(p, node, busy) == node \in p.locks \cup busy

\* beacon_close / nuphase_close, the descriptors: flock(LOCK_UN), close, free(d)
CloseHandle(p, h) ==
  [p EXCEPT !.locks = @ \ {p.handles[h].master, p.handles[h].slave},
            !.released = @ \cup ({p.handles[h].master, p.handles[h].slave} \cap Nodes),
            !.handles[h] = NoHandle]

\* beacon_open(devicename_master, devicename_slave, gpio_number, locking)
beacon_open(p, master, slave, busy, fail) ==
  LET slot == CHOOSE h \in Slots : ~p.handles[h].live
      ids == IF slave = "none" THEN <<p.board_id_counter, 0>>
             ELSE <<p.board_id_counter, p.board_id_counter + 1>>
      made == [p EXCEPT !.board_id_counter = @ + (IF slave = "none" THEN 1 ELSE 2),
                        !.locks = @ \cup ({master, slave} \cap Nodes),
                        !.handles[slot] = [live |-> TRUE, master |-> master,
                                           slave |-> slave, board_id |-> ids]]
  IN IF fail = "open_master" THEN Opened(p, 0, 0)
     ELSE IF FlockRefused(p, master, busy) THEN Opened(p, 0, 0)
     ELSE IF slave # "none" /\ fail = "open_slave" THEN Opened(p, 0, 0)
     ELSE IF slave # "none" /\ FlockRefused(p, slave, busy \cup {master})
          THEN Opened(p, 0, 0)
     ELSE IF fail = "reset"
          THEN Opened([CloseHandle(made, slot) EXCEPT !.released = p.released], 0, 0)
     ELSE Opened(made, slot, 0)

\* nuphase_open(devicename, gpio, c, locking): a refused flock returns without
\* close(fd); "if (nuphase_reset(dev, &dev->cfg, 0));" has an empty body, so the
\* block after it, nuphase_close(dev); return 0;, always runs.
nuphase_open(p, master, busy, fail) ==
  IF fail = "open_master" THEN Opened(p, 0, 0)
  ELSE IF FlockRefused(p, master, busy) THEN Opened(p, 0, 1)
  ELSE Opened([p EXCEPT !.board_id_counter = @ + 1], 0, 0)

\* if (id <= board_id_counter) board_id_counter = id+1; d->board_id[which] = id;
set_board_id(p, h, id, which) ==
  [p EXCEPT !.board_id_counter = IF id <= @ THEN id + 1 ELSE @,
            !.handles[h].board_id[which + 1] = id]

LocInit == [something |-> 0, interrupted |-> 0, timeout |-> -1, waited |-> 0]
ObsInit == [polled |-> FALSE, got_cancel |-> FALSE, callbit |-> FALSE]
PreInit == [phase |-> "none", owner |-> "none", first |-> "none", second |-> "none",
            flag_after |-> 0, polled |-> FALSE]

AllIdle == \A t \in Threads : pc[t] = "idle"

(***************************************************************************)
(* wait / cancel_wait                                                      *)
(*   beacon_wait  src/beacondaq.c 935-1007                                 *)
(*   nuphase_wait src/nuphasedaq.c 570-622 (no gpio: the polling branch)   *)
(* One action per shared-memory access of the call, so that a cancel from  *)
(* another thread or a signal handler can fall between any two of them.    *)
(***************************************************************************)
SetPc(t, p) == pc' = [pc EXCEPT ![t] = p]

\* Entry: the trylock on wait_mut; a failed trylock returns EBUSY at once.
WaitEnter_NoTrylock(t, to) ==
  /\ wait_mut' = (IF enable_locking THEN TRUE ELSE wait_mut)
  /\ SetPc(t, "precheck")
  /\ loc' = [loc EXCEPT ![t] = [LocInit EXCEPT !.timeout = to]]
  /\ ret' = [ret EXCEPT ![t] = "none"]

WaitEnter(t, to) ==
  IF enable_locking /\ wait_mut
  THEN /\ ret' = [ret EXCEPT ![t] = "EBUSY"]
       /\ UNCHANGED <<wait_mut, pc, loc>>
  ELSE /\ wait_mut' = (IF enable_locking THEN TRUE ELSE wait_mut)
       /\ SetPc(t, "precheck")
       /\ loc' = [loc EXCEPT ![t] = [LocInit EXCEPT !.timeout = to]]
       /\ ret' = [ret EXCEPT ![t] = "none"]

\* if (d->cancel_wait) { d->cancel_wait = 0; [unlock;] return EAGAIN; }
\* beacon_wait unlocks wait_mut here (line 961); nuphase_wait does not (593-597).
PrecheckCancelled(t) ==
  /\ cancel_wait' = 0
  /\ wait_mut' = (IF enable_locking /\ variant = "beacon" THEN FALSE ELSE wait_mut)
  /\ ret' = [ret EXCEPT ![t] = "EAGAIN"]
  /\ loc' = [loc EXCEPT ![t] = LocInit]
  /\ SetPc(t, "idle")

WaitPrecheck(t) ==
  IF cancel_wait # 0
  THEN PrecheckCancelled(t)
  ELSE /\ SetPc(t, "loop")
       /\ UNCHANGED <<cancel_wait, wait_mut, ret, loc>>

\* while (!something && (timeout <= 0 || waited < timeout))
LoopContinues_NoForever(l) == l.something = 0 /\ l.waited < l.timeout

LoopContinues(l) == l.something = 0 /\ (l.timeout <= 0 \/ l.waited < l.timeout)

WaitLoopCond(t) ==
  SetPc(t, IF LoopContinues(loc[t])
           THEN (IF variant = "beacon" THEN "poll" ELSE "chk")
           ELSE "exit")

\* something = check_buffers(d, &d->hardware_next, which): one STATUS read under the bus mutex
WaitPoll(t) ==
  /\ ~(enable_locking /\ mut)
  /\ loc' = [loc EXCEPT ![t].something = StatusMask(hw)]
  /\ hardware_next' = (IF variant = "beacon" THEN StatusNext(hw) ELSE hardware_next)
  /\ SetPc(t, IF variant = "beacon" THEN "chk" ELSE "loop")

\* if (d->cancel_wait) break;
WaitCheckCancel(t) ==
  SetPc(t, IF cancel_wait # 0 THEN "exit"
           ELSE IF variant = "nuphase" THEN "sleep"
           ELSE IF loc[t].something = 0 THEN "sleep" ELSE "loop")

\* usleep / sched_yield and the update of waited.
\* beacon: waited = (now.tv_sec - start.tv_nsec) * 1e-9f * (now.tv_nsec - start.tv_nsec),
\*   with start from CLOCK_MONOTONIC and now from CLOCK_REALTIME: any value.
\* nuphase: waited += POLL_USLEEP * 1e-6.
WaitSleep(t) ==
  /\ \E w \in 0..MaxTimeout :
       /\ IF variant = "beacon"
          THEN (IF loc[t].timeout > 0 THEN TRUE ELSE w = loc[t].waited)
          ELSE w = (IF loc[t].waited < MaxTimeout THEN loc[t].waited + 1 ELSE MaxTimeout)
       /\ loc' = [loc EXCEPT ![t].waited = w]
  /\ SetPc(t, IF variant = "beacon" THEN "loop" ELSE "poll")

\* int interrupted = d->cancel_wait;
WaitExitRead(t) ==
  /\ loc' = [loc EXCEPT ![t].interrupted = cancel_wait]
  /\ SetPc(t, "clear")

\* if (ready_buffers) *ready_buffers = something;  d->cancel_wait = 0;
WaitExitClear(t) ==
  /\ ready_out' = [ready_out EXCEPT ![t] = loc[t].something]
  /\ cancel_wait' = 0
  /\ SetPc(t, "unlock")

\* unlock wait_mut; return interrupted ? EINTR : 0;
WaitExitReturn(t) ==
  /\ wait_mut' = (IF enable_locking THEN FALSE ELSE wait_mut)
  /\ ret' = [ret EXCEPT ![t] = IF loc[t].interrupted # 0 THEN "EINTR" ELSE "OK"]
  /\ loc' = [loc EXCEPT ![t] = LocInit]
  /\ SetPc(t, "idle")

\* void beacon_cancel_wait(d) { d->cancel_wait = 1; }
CancelWaitFlag == cancel_wait' = 1

\* Positions at which the call has started and has not yet cleared the flag on exit.
BeforeClear == {"precheck", "loop", "poll", "chk", "sleep", "exit", "clear"}

otherThanWait == <<variant, enable_locking, has_slave, mut, next_read_buffer, event_counter,
                   rd, hdrs, txq, wire, hw, dev, proc>>

\* History of "a cancel issued while no wait is in progress": which call took it,
\* what that call returned, and what the call after it met on entry.
PreAtCall(t) ==
  IF pre.phase = "pending"
  THEN IF ret'[t] = "EBUSY"
       THEN [pre EXCEPT !.phase = "firstdone", !.owner = t, !.first = "EBUSY"]
       ELSE [pre EXCEPT !.phase = "taken", !.owner = t]
  ELSE IF pre.phase = "firstdone"
  THEN IF ret'[t] = "EBUSY"
       THEN [pre EXCEPT !.phase = "done", !.owner = t, !.second = "EBUSY"]
       ELSE [pre EXCEPT !.phase = "second", !.owner = t]
  ELSE pre

PreAtPrecheck(t) ==
  IF pre.phase = "taken" /\ pre.owner = t
  THEN [pre EXCEPT !.phase = "firstdone",
                   !.first = IF ret'[t] = "EAGAIN" THEN "EAGAIN" ELSE "missed",
                   !.flag_after = cancel_wait',
                   !.polled = obs[t].polled]
  ELSE IF pre.phase = "second" /\ pre.owner = t
  THEN [pre EXCEPT !.phase = "done",
                   !.second = IF ret'[t] = "EAGAIN" THEN "EAGAIN" ELSE "ok"]
  ELSE pre

\* A thread calls wait(timeout).  Without locking the handle is single-thread-use.
WaitCall(t, to) ==
  /\ pc[t] = "idle"
  /\ enable_locking \/ t = "t1"
  /\ WaitEnter(t, to)
  /\ obs' = [obs EXCEPT ![t] = [polled |-> FALSE, got_cancel |-> FALSE,
                                callbit |-> ~obs[t].callbit]]
  /\ pre' = PreAtCall(t)
  /\ UNCHANGED <<cancel_wait, ready_out, hardware_next, otherThanWait>>

Precheck(t) ==
  /\ pc[t] = "precheck"
  /\ WaitPrecheck(t)
  /\ pre' = PreAtPrecheck(t)
  /\ UNCHANGED <<ready_out, hardware_next, obs, otherThanWait>>

LoopCond(t) ==
  /\ pc[t] = "loop"
  /\ WaitLoopCond(t)
  /\ UNCHANGED <<cancel_wait, wait_mut, loc, ret, ready_out, hardware_next, obs, pre,
                 otherThanWait>>

Poll(t) ==
  /\ pc[t] = "poll"
  /\ WaitPoll(t)
  /\ obs' = [obs EXCEPT ![t].polled = TRUE]
  /\ UNCHANGED <<cancel_wait, wait_mut, ret, ready_out, pre, otherThanWait>>

CheckCancel(t) ==
  /\ pc[t] = "chk"
  /\ WaitCheckCancel(t)
  /\ UNCHANGED <<cancel_wait, wait_mut, loc, ret, ready_out, hardware_next, obs, pre,
                 otherThanWait>>

Sleep(t) ==
  /\ pc[t] = "sleep"
  /\ WaitSleep(t)
  /\ UNCHANGED <<cancel_wait, wait_mut, ret, ready_out, hardware_next, obs, pre,
                 otherThanWait>>

ExitRead(t) ==
  /\ pc[t] = "exit"
  /\ WaitExitRead(t)
  /\ UNCHANGED <<cancel_wait, wait_mut, ret, ready_out, hardware_next, obs, pre,
                 otherThanWait>>

ExitClear(t) ==
  /\ pc[t] = "clear"
  /\ WaitExitClear(t)
  /\ UNCHANGED <<wait_mut, loc, ret, hardware_next, obs, pre, otherThanWait>>

ExitReturn(t) ==
  /\ pc[t] = "unlock"
  /\ WaitExitReturn(t)
  /\ UNCHANGED <<cancel_wait, ready_out, hardware_next, obs, pre, otherThanWait>>

\* cancel_wait may be called from any thread or from a signal handler, at any time.
CancelWait ==
  /\ CancelWaitFlag
  /\ obs' = [t \in Threads |->
               IF pc[t] \in BeforeClear THEN [obs[t] EXCEPT !.got_cancel = TRUE] ELSE obs[t]]
  /\ pre' = IF AllIdle THEN [PreInit EXCEPT !.phase = "pending"] ELSE PreInit
  /\ UNCHANGED <<wait_mut, pc, loc, ret, ready_out, hardware_next, otherThanWait>>

\* The board accepts a trigger.
HwTrigger ==
  /\ CanTrigger(hw)
  /\ hw' = HwTriggered(hw)
  /\ UNCHANGED <<variant, enable_locking, has_slave, cancel_wait, wait_mut, mut,
                 hardware_next, next_read_buffer, event_counter, pc, loc, ret, ready_out,
                 obs, pre, rd, hdrs, txq, wire, dev, proc>>

RdInit == [kind |-> "none"]

Frame(r, a) == [reg |-> r, arg |-> a]

\* No synchronized command issued yet.
WireInit == [cmd |-> Frame("none", 0), reg |-> 0, ret |-> 0, clean |-> TRUE, sent |-> << >>]

\* The buffer holding the oldest event: the first ready one from the fill pointer on.
OldestReady(h) ==
  LET k == CHOOSE i \in 0..NUM_BUFFER :
             /\ i < NUM_BUFFER => Bit(h.ready, (h.fill + i) % NUM_BUFFER) = 1
             /\ \A j \in 0..(i - 1) : Bit(h.ready, (h.fill + j) % NUM_BUFFER) = 0
  IN (h.fill + k) % NUM_BUFFER

\* Headers handed back by the calls since the last counter reset; ok while no call failed.
HdrsInit == [ok |-> TRUE, nums |-> << >>]

InitCommon ==
  /\ variant \in Variants
  /\ enable_locking \in BOOLEAN
  /\ cancel_wait = 0
  /\ wait_mut = FALSE
  /\ mut = FALSE
  /\ hardware_next = 0
  /\ next_read_buffer = 0
  /\ event_counter = 0
  /\ pc = [t \in Threads |-> "idle"]
  /\ loc = [t \in Threads |-> LocInit]
  /\ ret = [t \in Threads |-> "none"]
  /\ ready_out = [t \in Threads |-> 0]
  /\ hw = HwInit
  /\ obs = [t \in Threads |-> ObsInit]
  /\ pre = PreInit
  /\ rd = RdInit
  /\ hdrs = HdrsInit
  /\ txq = [b \in {MASTER, SLAVE} |-> << >>]
  /\ wire = WireInit
  /\ dev = DevInit
  /\ proc = ProcInit

InitWait == InitCommon /\ has_slave = FALSE

NextWait ==
  \/ \E t \in Threads, to \in Timeouts : WaitCall(t, to)
  \/ \E t \in Threads : Precheck(t)
  \/ \E t \in Threads : LoopCond(t)
  \/ \E t \in Threads : Poll(t)
  \/ \E t \in Threads : CheckCancel(t)
  \/ \E t \in Threads : Sleep(t)
  \/ \E t \in Threads : ExitRead(t)
  \/ \E t \in Threads : ExitClear(t)
  \/ \E t \in Threads : ExitReturn(t)
  \/ CancelWait
  \/ HwTrigger

SpecWait == InitWait /\ [][NextWait]_vars

\* A thread inside wait keeps running: every statement of the call returns (the trylock,
\* the register read, usleep, sched_yield), so the scheduler lets the thread take its
\* next step.
WaitStep(t) ==
  \/ Precheck(t) \/ LoopCond(t) \/ Poll(t) \/ CheckCancel(t) \/ Sleep(t)
  \/ ExitRead(t) \/ ExitClear(t) \/ ExitReturn(t)

SpecWaitFair == SpecWait /\ \A t \in Threads : WF_vars(WaitStep(t))

(***************************************************************************)
(* Claims about wait / cancel                                              *)
(***************************************************************************)
InWait(t) == pc[t] # "idle"

\* C2: on a handle opened with locking enabled at most one wait is in flight, and a
\* wait started while another one is in progress returns EBUSY at once: it does not
\* poll the device and it leaves the cancel flag, the ready masks and the state of the
\* wait in progress untouched.
C2_SingleWaiter ==
  /\ [](enable_locking => Cardinality({t \in Threads : InWait(t)}) <= 1)
  /\ [][\A t \in Threads :
          (/\ enable_locking
           /\ obs'[t].callbit # obs[t].callbit
           /\ \E u \in Threads \ {t} : InWait(u))
          => (/\ ret'[t] = "EBUSY"
              /\ pc'[t] = "idle"
              /\ ~obs'[t].polled
              /\ UNCHANGED <<cancel_wait, ready_out, hardware_next, wait_mut, hw>>
              /\ \A u \in Threads \ {t} :
                   pc'[u] = pc[u] /\ loc'[u] = loc[u] /\ ret'[u] = ret[u])]_vars

\* C2 witness: a second wait has just returned EBUSY while the first is still polling.
C2_Witness ==
  /\ enable_locking
  /\ ret["t2"] = "EBUSY" /\ pc["t2"] = "idle"
  /\ pc["t1"] = "sleep" /\ obs["t1"].polled

\* C3: a cancel issued when no wait is in progress is consumed by exactly the next wait
\* call, which returns cancelled (EAGAIN) without polling and leaves the flag clear; the
\* wait call after that one is neither busy nor cancelled on account of the old cancel.
C3_CancelConsumedByNextWait ==
  /\ pre.first \in {"none", "EAGAIN"}
  /\ pre.first = "EAGAIN" => (pre.flag_after = 0 /\ ~pre.polled)
  /\ pre.second \in {"none", "ok"}

\* C4: a cancel issued while a wait is in progress makes that wait return cancelled.
C4_CancelNeverLost ==
  \A t \in Threads :
    (variant = "beacon" /\ pc[t] = "idle" /\ obs[t].got_cancel)
      => ret[t] \in {"EINTR", "EAGAIN"}


\* C15: a wait called with a positive timeout eventually returns, unless a buffer
\* becomes ready or a cancel is issued in the meantime.
C15_TimedWaitReturns ==
  \A t \in Threads :
    (pc[t] = "loop" /\ loc[t].timeout > 0)
      ~> (pc[t] = "idle" \/ cancel_wait # 0 \/ StatusMask(hw) # 0)

\* C16: a wait called with a non-positive timeout that is about to return from its
\* loop (the mask is stored, the return value is decided) either reports a non-empty
\* ready mask or returns EINTR; it never returns success with an empty mask.
C16_UntimedWaitNeverEmpty ==
  \A t \in Threads :
    (pc[t] = "unlock" /\ loc[t].timeout <= 0)
      => (ready_out[t] # 0 \/ loc[t].interrupted # 0)

C16_Witness ==
  \E t \in Threads :
    /\ pc[t] = "unlock" /\ loc[t].timeout <= 0 /\ obs[t].polled
    /\ ready_out[t] = 0 /\ loc[t].interrupted # 0

(***************************************************************************)
(* Readout                                                                 *)
(*   beacon_read_multiple_ptr  src/beacondaq.c 1449-1714                   *)
(*   nuphase_read_multiple_ptr src/nuphasedaq.c 897-1036                   *)
(* A call is one action; the loop over the buffers is the recursive        *)
(* operator ReadLoop.  A transfer may fail in one iteration of the call,   *)
(* at one of the stages below.                                             *)
(***************************************************************************)
readout_number_offset == 64    \* d->readout_number_offset: time(0) << 32, fixed at open
Pow24 == 16777216              \* 1 << 24
Pow22 == 4194304               \* 1 << 22
TrigTypeBits == 32768          \* trig_info bits 15-16: trigger type 1

\* REG_TRIG_INFO as the board sends it: bits 22-23 carry the buffer the event is in.
TrigInfo(index) == index * Pow22 + TrigTypeBits

\* uint8_t hwbuf = (tinfo >> 22) & 0x3;
HwBuf(tinfo) == (tinfo \div Pow22) % 4

\* hd->sync_problem for one board pass: cleared at the top of the iteration, bit 0
\* set when hwbuf != ibuf.  The counters swctr (d->event_counter) and hwc
\* (big_event_counter) are compared just before, but only to print a warning.
SyncProblemBits_NoBufferBit(ibuf, hwbuf, swctr, hwc) == 0

SyncProblemBits(ibuf, hwbuf, swctr, hwc) == IF hwbuf # ibuf THEN 1 ELSE 0

\* What the board does with the frames of one SPI message: REG_CLEAR releases buffers.
RECURSIVE Deliver(_, _)
Deliver(h, frames) ==
  IF frames = << >> THEN h
  ELSE Deliver(IF Head(frames).reg = "CLEAR" THEN HwCleared(h, Head(frames).arg) ELSE h,
               Tail(frames))

\* The state a readout call works on: cursor, software counter, board, master batch,
\* and what the call did: log of steps, filled output slots, return value.
ReadState(m) ==
  [cur |-> next_read_buffer, evc |-> event_counter, hw |-> hw, q |-> txq[MASTER],
   log |-> << >>, out |-> << >>, ret |-> 0, held |-> FALSE, hwctr |-> -1,
   failbuf |-> -1, unfilled |-> FALSE, mask |-> m, before |-> next_read_buffer,
   ready |-> StatusMask(hw), skew |-> 0, hd |-> << >>,
   swtrig |-> 0, clkfail |-> 0, misery |-> 0, happy |-> FALSE]

Logged(s, o, b) == [s EXCEPT !.log = Append(@, [op |-> o, buf |-> b])]

\* buffer_send succeeded: the whole batch goes to the board and nused returns to 0.
SendOK(s) == [s EXCEPT !.hw = Deliver(s.hw, s.q), !.q = << >>]

\* CHK(X): ret++ and goto the_end, between USING and DONE: the bus mutex stays locked.
\* A failed buffer_send leaves nused as it was, so the frames stay in the batch.
Failed_RetUnchanged(s, b) == [s EXCEPT !.held = TRUE, !.failbuf = b]

Failed(s, b) == [s EXCEPT !.ret = 1, !.held = TRUE, !.failbuf = b]

\* mark_buffers_done(d, 1 << b), one board: append REG_CLEAR and a CLEAR_STATUS read,
\* flush; the caller ignores the return value.
MarkBuffersDone(s, b, fails) ==
  LET s1 == [Logged(s, "clear", b) EXCEPT !.q = Append(@, Frame("CLEAR", Pow2(b)))]
  IN IF fails THEN s1 ELSE SendOK(s1)

\* iout++ : one more output slot is handed back to the caller.
SlotDone(s, b, filled, num) ==
  [Logged(s, "slot", b) EXCEPT !.out = Append(@, num), !.unfilled = @ \/ ~filled]

\* One iteration of the outer loop of beacon_read_multiple_ptr.
\* stale is what the caller's header held before the call.
\* (mask & (1 << ibuf)) == 0, "Sync issue?": the cursor jumps to the lowest bit of the
\* mask and the inner loop is left; the code after it still clears the buffer and
\* counts an output slot.
SyncIssue(s, stage, stale) ==
  SlotDone(MarkBuffersDone([Logged(s, "resync", Ctz(s.mask)) EXCEPT !.cur = Ctz(s.mask)],
                           Ctz(s.mask), stage = "clear"),
           Ctz(s.mask), FALSE, stale)

\* ibd == 0: d->event_counter++ and the cursor moves on, before any transfer; then the
\* buffer select and the metadata register reads are appended.
BeginBuffer(s, ibuf) ==
  [Logged(s, "advance", ibuf) EXCEPT
     !.evc = @ + 1,
     !.cur = (ibuf + 1) % NUM_BUFFER,
     !.q = @ \o <<Frame("BUFFER", ibuf), Frame("META", ibuf)>>]

\* the metadata batch was flushed: big_event_counter is the counter stored with the
\* buffer; then the waveform reads are appended.
AfterMeta(s, ibuf) ==
  [s EXCEPT !.hwctr = s.hw.evt[ibuf], !.q = Append(@, Frame("WAVE", ibuf))]

\* The checks made on the metadata of buffer ibuf and what the header keeps of them.
\* The board names buffer (ibuf + skew) % 4 in trig_info.
HeaderChecks(s, ibuf) ==
  [buf |-> ibuf,
   hwbuf |-> HwBuf(TrigInfo((ibuf + s.skew) % NUM_BUFFER)),
   sw |-> s.evc, hw |-> s.hwctr,
   sync_problem |-> SyncProblemBits(ibuf, HwBuf(TrigInfo((ibuf + s.skew) % NUM_BUFFER)),
                                    s.evc, s.hwctr)]

\* final flush, mark_buffers_done(d, 1 << ibuf), iout++
FinishBuffer(s, ibuf, stage) ==
  SlotDone(MarkBuffersDone([Logged(SendOK(s), "drain", ibuf) EXCEPT
                              !.hd = Append(@, HeaderChecks(s, ibuf))],
                           ibuf, stage = "clear"),
           ibuf, TRUE, readout_number_offset + s.hwctr)

ReadOne(s, stage, stale) ==
  IF Bit(s.mask, s.cur) = 0 THEN SyncIssue(s, stage, stale)
  ELSE IF stage = "meta" THEN Failed(BeginBuffer(s, s.cur), s.cur)
  ELSE IF stage = "wave" THEN Failed(AfterMeta(SendOK(BeginBuffer(s, s.cur)), s.cur), s.cur)
  ELSE FinishBuffer(AfterMeta(SendOK(BeginBuffer(s, s.cur)), s.cur), s.cur, stage)

\* for (iibuf = 0; iibuf < __builtin_popcount(mask); iibuf++)
RECURSIVE ReadLoop(_, _, _, _, _)
ReadLoop(s, iibuf, fi, stage, stale) ==
  IF iibuf >= PopCount(s.mask) \/ s.ret # 0 THEN s
  ELSE ReadLoop(ReadOne(s, IF iibuf = fi THEN stage ELSE "none", stale),
                iibuf + 1, fi, stage, stale)

BeaconReadMultiple(m, fi, stage, stale, skew) ==
  ReadLoop([ReadState(m) EXCEPT !.skew = skew], 0, fi, stage, stale)

\* nuphase: the counter words land in a union { uint64_t u64; uint8_t u32[2]; }.
\* LOW is received at byte 1 and HIGH at byte 0, each four bytes long, so after both
\* only the last byte of LOW survives, at byte 4; bytes 5-7 are never written (u).
\* be64toh then puts byte 4 at bits 24-31.  The counter's upper half is 0 here.
NuphaseEventCounter(counter, u) == (counter % 256) * Pow24 + u

\* One pass of the loop body of nuphase_read_multiple_ptr for a buffer of the mask.
\* The batch is local to the call.  xfer_buffer_send tests !ioctl(...), so an ioctl
\* error (-1) passes for success: the frames are dropped and the call goes on.
NuphaseSlot(s, ibuf) == SlotDone(s, ibuf, TRUE, readout_number_offset + s.hwctr)

NuphaseReadOne(s, ibuf, stage, u) ==
  NuphaseSlot(
    IF stage = "wave"
    THEN Logged([Logged(s, "select", ibuf) EXCEPT
                   !.hwctr = NuphaseEventCounter(s.hw.evt[ibuf], u), !.evc = @ + 1],
                "lost", ibuf)
    ELSE [Logged(Logged([Logged(s, "select", ibuf) EXCEPT
                           !.hwctr = NuphaseEventCounter(s.hw.evt[ibuf], u), !.evc = @ + 1],
                        "drain", ibuf), "clear", ibuf)
            EXCEPT !.hw = HwCleared(@, Pow2(ibuf))],
    ibuf)

\* for (ibuf = 0; ibuf < NP_NUM_BUFFER; ibuf++) { if (!(mask & (1 << ibuf))) continue; ...
RECURSIVE NuphaseReadLoop(_, _, _, _, _, _)
NuphaseReadLoop(s, ibuf, iout, fi, stage, u) ==
  IF ibuf >= NUM_BUFFER THEN s
  ELSE IF Bit(s.mask, ibuf) = 0 THEN NuphaseReadLoop(s, ibuf + 1, iout, fi, stage, u)
  ELSE NuphaseReadLoop(NuphaseReadOne(s, ibuf, IF iout = fi THEN stage ELSE "none", u),
                       ibuf + 1, iout + 1, fi, stage, u)

NuphaseReadMultiple(m, fi, stage, u) == NuphaseReadLoop(ReadState(m), 0, 0, fi, stage, u)

Stages == {"none", "meta", "wave", "clear"}
\* The masks a caller passes: what wait returned (all ready buffers: read_multiple_array,
\* read_multiple_ptr) or one ready buffer (read_single).
ReadableMasks(r) ==
  {m \in {r} \cup {Pow2(b) : b \in 0..(NUM_BUFFER - 1)} :
     m # 0 /\ \A b \in 0..(NUM_BUFFER - 1) : Bit(m, b) = 1 => Bit(r, b) = 1}

waitIdleVars == <<cancel_wait, wait_mut, hardware_next, pc, loc, ret, ready_out, obs, pre>>

ReadMultiple(m, fi, stage, stale, skew) ==
  /\ ~(enable_locking /\ mut)
  /\ variant = "nuphase" => skew = 0
  /\ stage = "none" => fi = 0
  /\ event_counter + PopCount(m) <= MaxReadouts
  /\ Len(hdrs.nums) + PopCount(m) <= MaxReadouts
  /\ \E s \in {IF variant = "beacon"
               THEN BeaconReadMultiple(m, fi, stage, stale, skew)
               ELSE NuphaseReadMultiple(m, fi, IF stage = "wave" THEN "wave" ELSE "none",
                                        stale)} :
        /\ Len(s.q) <= MaxQueue
        /\ next_read_buffer' = s.cur
        /\ event_counter' = s.evc
        /\ hw' = s.hw
        /\ txq' = [txq EXCEPT ![MASTER] = s.q]
        /\ mut' = (IF enable_locking /\ s.held THEN TRUE ELSE mut)
        /\ rd' = [kind |-> "read", mask |-> m, ready |-> s.ready,
                  before |-> (IF variant = "beacon" THEN s.before ELSE OldestReady(hw)),
                  ret |-> s.ret, log |-> s.log, hwctr |-> s.hwctr, failbuf |-> s.failbuf,
                  hd |-> s.hd]
        /\ hdrs' = IF s.ret = 0 /\ hdrs.ok THEN [hdrs EXCEPT !.nums = @ \o s.out]
                   ELSE [ok |-> FALSE, nums |-> << >>]
  /\ UNCHANGED <<devVars, waitIdleVars, wire>>

\* beacon_reset(d, type): [RESET_ALL], readout off, clear all buffers and reset the
\* fill pointer, next_read_buffer = 0, [the ADC alignment], RESET_COUNTER.
\* d->event_counter is not assigned anywhere in it.
ResetTypes == {"COUNTERS", "CALIBRATE", "ALMOST_GLOBAL", "GLOBAL"}
MAX_MISERY == 100

\* What the board and the bus do in one pass of the alignment loop:
\*   ok      the pulse is seen in every channel, peaks at most 16 samples apart
\*   nobuf   the software trigger is lost: no event
\*   late    the event is not yet flagged ready when beacon_wait returns
\*   peak    min_max_v < MIN_GOOD_MAX_V
\*   spread  max_max_i - min_max_i > 16
\*   clkrst  the write of buf_adc_clk_rst fails (passes after the first)
CalEnv == {"ok", "nobuf", "late", "peak", "spread", "clkrst"}

\* A plan: the first pass meets plan.first, passes 2..plan.n meet plan.rest, later
\* passes meet ok.
Plan(n, first, rest) == [n |-> n, first |-> first, rest |-> rest]
EnvAt(plan, k) == IF k > plan.n THEN "ok" ELSE IF k = 1 THEN plan.first ELSE plan.rest

\* beacon_sw_trigger: the board stores an event unless the buffer under the fill
\* pointer is still occupied.
CalTrigger(s, env) ==
  [s EXCEPT !.swtrig = @ + 1,
            !.hw = IF env # "nobuf" /\ Bit(s.hw.ready, s.hw.fill) = 0
                   THEN HwTriggered(s.hw) ELSE s.hw]

\* beacon_wait(d, &mask, 1, MASTER)
CalMask(before, after, env) ==
  IF env = "late" THEN StatusMask(before.hw) ELSE StatusMask(after.hw)

\* beacon_read_single(d, __builtin_ctz(mask), &d->calib_hd, &d->calib_ev); the return
\* value is not looked at.
CalRead(s, m) ==
  ReadLoop([s EXCEPT !.mask = Pow2(Ctz(m)), !.log = << >>, !.out = << >>,
                     !.hd = << >>],
           0, 0, "none", 0)

\* the sanity checks on the peaks, then the ADC delays and happy = 1
CalJudge(s, env) == IF env \in {"peak", "spread"} THEN s ELSE [s EXCEPT !.happy = TRUE]

\* if (!nbuf) continue;
CalAfterWait(s, m, env) == IF m = 0 THEN s ELSE CalJudge(CalRead(s, m), env)

\* One pass of while (!happy) that got past the misery test; k is misery after the
\* increment.
CalAttempt(s, k, env) ==
  IF k > 1 /\ env = "clkrst" THEN [s EXCEPT !.clkfail = @ + 1]
  ELSE CalAfterWait(CalTrigger(s, env), CalMask(s, CalTrigger(s, env), env), env)

\* while (!happy) { if (misery++ > 0) { if (misery > MAX_MISERY) break; ... } ... }
\* Pass k of the loop, k being misery after the increment; pass MAX_MISERY + 1 is the
\* break.  No pass runs once happy is set.
CalPass_GivesUpEarly(s, k, plan) ==
  IF s.happy THEN s
  ELSE IF k >= MAX_MISERY THEN [s EXCEPT !.misery = k]
  ELSE [CalAttempt(s, k, EnvAt(plan, k)) EXCEPT !.misery = k]

CalPass(s, k, plan) ==
  IF s.happy THEN s
  ELSE IF k > MAX_MISERY THEN [s EXCEPT !.misery = k]
  ELSE [CalAttempt(s, k, EnvAt(plan, k)) EXCEPT !.misery = k]

\* Passes lo..hi in order.  The range is split in halves and the state after the
\* first half is computed before the second half starts, to keep the evaluation shallow.
RECURSIVE CalPasses(_, _, _, _)
CalPasses(s, lo, hi, plan) ==
  IF lo = hi THEN CalPass(s, lo, plan)
  ELSE CHOOSE last \in {CalPasses(half, ((lo + hi) \div 2) + 1, hi, plan) :
                           half \in {CalPasses(s, lo, (lo + hi) \div 2, plan)}} : TRUE

CalibrationLoop(s, plan) == CalPasses(s, 1, MAX_MISERY + 1, plan)

\* What the alignment block changes before its loop: buffer length, beamforming
\* trigger off, cal pulser released.
CalBegin(d) ==
  [d EXCEPT !.buffer_length = CalibBufferLength,
            !.trig_enable = EncodeEnables([DecodeEnables(d.trig_enable) EXCEPT
                                             !.enable_beamforming = 0]),
            !.calpulse = 3]

\* ... and after its loop: d->buffer_length = old_buf_length; beacon_calpulse(d, 0);
\* beacon_set_trigger_enables(d, old_enables, MASTER).  old is the handle and board
\* as they were when the block was entered.
CalEnd_KeepsCalibrationSetup(d, old) == d

CalEnd(d, old) ==
  [d EXCEPT !.buffer_length = old.buffer_length,
            !.calpulse = 0,
            !.trig_enable = EncodeEnables(DecodeEnables(old.trig_enable))]

\* The alignment block: the loop, then "reclear the buffers" (REG_CLEAR 0xf on each
\* board; the fill pointer and next_read_buffer are left alone).
Calibrated(s, plan) ==
  [CalibrationLoop(s, plan) EXCEPT !.hw = HwCleared(@, BUF_MASK)]

\* if (!happy) return -1; otherwise RESET_COUNTER and return 0
ResetEnd(s, calibrating) ==
  IF calibrating /\ ~s.happy THEN [s EXCEPT !.ret = -1]
  ELSE [s EXCEPT !.hw.count = 0]

BeaconReset(type, plan) ==
  LET cleared == [HwCleared(hw, BUF_MASK) EXCEPT !.fill = 0]
      s0 == [ReadState(0) EXCEPT !.hw = cleared, !.cur = 0, !.q = << >>]
  IN ResetEnd(IF type = "COUNTERS" THEN s0 ELSE Calibrated(s0, plan), type # "COUNTERS")

\* nuphase_reset(d, c, hard): hard = the board's global reset; otherwise clear all
\* buffers and RESET_COUNTER.
NuphaseReset(type) ==
  LET s0 == ReadState(0)
  IN IF type = "GLOBAL" THEN [s0 EXCEPT !.hw = HwInit]
     ELSE [s0 EXCEPT !.hw = [HwCleared(hw, BUF_MASK) EXCEPT !.count = 0]]

\* One call of reset.  For a calibrating reset plan says what each pass meets.
ResetCall(type, plan) ==
  /\ ~(enable_locking /\ mut)
  /\ \E s \in {IF variant = "beacon" THEN BeaconReset(type, plan) ELSE NuphaseReset(type)} :
        /\ next_read_buffer' = s.cur
        /\ event_counter' = s.evc
        /\ hw' = s.hw
        /\ txq' = [txq EXCEPT ![MASTER] = s.q]
        /\ rd' = [kind |-> "reset", mask |-> 0, before |-> 0, ready |-> 0,
                  ret |-> s.ret, log |-> << >>, hwctr |-> -1, failbuf |-> -1,
                  hd |-> << >>, type |-> type, swtrig |-> s.swtrig,
                  clkfail |-> s.clkfail,
                  misery |-> s.misery, happy |-> s.happy, old |-> dev,
                  during |-> (IF variant = "beacon" /\ type # "COUNTERS"
                              THEN CalBegin(dev) ELSE dev),
                  after |-> (IF variant = "beacon" /\ type # "COUNTERS"
                             THEN CalEnd(CalBegin(dev), dev) ELSE dev),
                  cur |-> s.cur, status |-> StatusMask(s.hw), fill |-> StatusNext(s.hw),
                  count |-> s.hw.count]
        /\ hdrs' = IF s.ret = 0 THEN HdrsInit ELSE [ok |-> FALSE, nums |-> << >>]
  /\ dev' = IF variant = "beacon" /\ type # "COUNTERS"
            THEN CalEnd(CalBegin(dev), dev) ELSE dev
  /\ UNCHANGED <<cfgVars, waitIdleVars, mut, wire>>

\* In the readout specification a calibrating reset takes ncal passes: the first
\* ncal - 1 are rejected on the peak, the last one aligns.
Reset(type, ncal) ==
  /\ IF variant = "beacon"
     THEN /\ ncal >= 1 <=> type # "COUNTERS"
          /\ event_counter + ncal <= MaxReadouts
     ELSE type \in {"COUNTERS", "GLOBAL"} /\ ncal = 0
  /\ ResetCall(type, Plan(ncal - 1, "peak", "peak"))

\* close and open again: a new handle (memset 0, event_counter = 0,
\* next_read_buffer = 0) and beacon_reset(dev, BN_RESET_COUNTERS).
Open ==
  /\ next_read_buffer' = 0
  /\ event_counter' = 0
  /\ hw' = (IF variant = "beacon" THEN HwInit
            ELSE [HwCleared(hw, BUF_MASK) EXCEPT !.count = 0])
  /\ txq' = [b \in {MASTER, SLAVE} |-> << >>]
  /\ mut' = FALSE
  /\ rd' = RdInit
  /\ hdrs' = HdrsInit
  /\ dev' = [dev EXCEPT !.buffer_length = DefaultBufferLength, !.pretrigger = 0,
                         !.poll_interval = 0]
  /\ UNCHANGED <<cfgVars, waitIdleVars, wire>>

InitRead == InitCommon /\ has_slave = FALSE

NextRead ==
  \/ HwTrigger
  \/ \E m \in ReadableMasks(StatusMask(hw)) :
       \E fi \in 0..(PopCount(m) - 1), stage \in Stages, stale \in 0..1, skew \in 0..1 :
         ReadMultiple(m, fi, stage, stale, skew)
  \/ \E type \in ResetTypes, ncal \in 0..MaxCal : Reset(type, ncal)
  \/ Open

SpecRead == InitRead /\ [][NextRead]_vars

(***************************************************************************)
(* Claims about the readout                                                *)
(***************************************************************************)
LastRead == rd.kind = "read"
LastReadOK == rd.kind = "read" /\ rd.ret = 0
LogHas(o, b) == \E i \in 1..Len(rd.log) : rd.log[i] = [op |-> o, buf |-> b]
LogHasBefore(o, b, i) == \E j \in 1..(i - 1) : rd.log[j] = [op |-> o, buf |-> b]
Drained == SelectSeq(rd.log, LAMBDA e : e.op = "drain")
RingPos(b, c) == (b - c + NUM_BUFFER) % NUM_BUFFER

\* C5: after a successful beacon read of a mask m in {0001, 0011, 0111, 1111} the cursor
\* is its value before the call plus popcount(m), modulo 4, and no buffer that was ready
\* on the board but not in m has been advanced past.
C5_CursorAdvancesByPopcount ==
  (variant = "beacon" /\ LastReadOK /\ rd.mask \in {1, 3, 7, 15})
    => /\ next_read_buffer = (rd.before + PopCount(rd.mask)) % NUM_BUFFER
       /\ \A b \in 0..(NUM_BUFFER - 1) :
            (Bit(rd.ready, b) = 1 /\ Bit(rd.mask, b) = 0) => ~LogHas("advance", b)

\* C6: the cursor advances past a buffer only when that buffer was drained; when an
\* append or a flush fails while buffer b is read, the cursor still names b on return.
C6_CursorAdvancesOnlyAfterDrain ==
  (variant = "beacon" /\ LastRead)
    => /\ \A b \in 0..(NUM_BUFFER - 1) : LogHas("advance", b) => LogHas("drain", b)
       /\ rd.ret # 0 => next_read_buffer = rd.failbuf

\* C7: after every successful beacon readout the software event counter equals the
\* event counter the hardware reported for the event just read, whatever opens, resets
\* and readouts came before.
C7_SoftwareCounterMatchesHardware ==
  (variant = "beacon" /\ LastReadOK /\ rd.hwctr # -1) => event_counter = rd.hwctr

\* C8: over a sequence of successful readouts the k-th header's event number is
\* event_number_offset + k, hence strictly increasing in steps of 1.
C8_EventNumbersSequential ==
  hdrs.ok => \A k \in 1..Len(hdrs.nums) : hdrs.nums[k] = readout_number_offset + k

\* C9: within one readout call the buffers are read in cursor order, starting at the
\* cursor and going round the ring, not in ascending bit order of the mask.
C9_ReadInCursorOrder ==
  LastReadOK
    => /\ \A i, j \in 1..Len(Drained) :
            i < j => RingPos(Drained[i].buf, rd.before) < RingPos(Drained[j].buf, rd.before)
       /\ (variant = "beacon" /\ Len(Drained) > 0) => Drained[1].buf = rd.before

\* C10: the clear command for a buffer is issued, and an output slot is counted for it,
\* only after the buffer was drained in that call.
C10_ClearOnlyAfterDrain ==
  (variant = "beacon" /\ LastRead)
    => \A i \in 1..Len(rd.log) :
         rd.log[i].op \in {"clear", "slot"} => LogHasBefore("drain", rd.log[i].buf, i)


Headers == {rd.hd[i] : i \in 1..Len(rd.hd)}

\* C11: when the buffer index the board reports in trig_info (bits 22-23) differs from
\* the buffer the read asked for, bit 0 of the header's sync_problem is set and the read
\* is not failed by it; when the two agree, bit 0 is clear.
C11_BufferMismatchSetsBit0 ==
  (variant = "beacon" /\ LastRead)
    => /\ \A h \in Headers : (h.sync_problem % 2 = 1) <=> (h.hwbuf # h.buf)
       /\ rd.failbuf = -1 => rd.ret = 0

C11_Witness ==
  /\ variant = "beacon" /\ LastReadOK
  /\ Len(rd.hd) = PopCount(rd.mask)
  /\ \E h \in Headers : h.hwbuf # h.buf /\ h.sync_problem = 1

\* C12: when the software event counter and the hardware event counter disagree while
\* a buffer is read, the disagreement is recorded in the header's sync_problem, in a bit
\* other than the buffer-index bit, and the readout is not aborted.
C12_CounterMismatchRecorded ==
  (variant = "beacon" /\ LastRead)
    => /\ \A h \in Headers : h.sw # h.hw => h.sync_problem \div 2 # 0
       /\ rd.failbuf = -1 => rd.ret = 0

\* The output slots the last read handed back (iout at the end of the call).
SlotsDone == Len(SelectSeq(rd.log, LAMBDA e : e.op = "slot"))

\* C14 as claimed: a beacon read returns the number of events it read, 1 for a
\* single-buffer read that succeeds and popcount(mask) when every buffer was read.
C14_ReturnsEventCount ==
  (variant = "beacon" /\ LastRead /\ rd.failbuf = -1 /\ SlotsDone = PopCount(rd.mask))
    => rd.ret = PopCount(rd.mask)

\* C14 as amended: a beacon read returns 0 when it handed back an output slot for every
\* buffer of the mask and 1 when a transfer failed before that; the return value is a
\* failure count, not the number of events.
C14_ReturnsZeroOnSuccess ==
  (variant = "beacon" /\ LastRead)
    => /\ rd.ret \in {0, 1}
       /\ rd.ret = 0 <=> SlotsDone = PopCount(rd.mask)

C14_Witness ==
  /\ variant = "beacon" /\ LastRead
  /\ PopCount(rd.mask) >= 2 /\ SlotsDone = PopCount(rd.mask) /\ rd.ret = 0
  /\ Len(rd.hd) = PopCount(rd.mask)

(***************************************************************************)
(* Reset and the ADC alignment, src/beacondaq.c 1888-2194, with the calls  *)
(* that set what the alignment borrows: buffer length, pretrigger and      *)
(* trigger enables.                                                        *)
(***************************************************************************)
BufferLengths == {DefaultBufferLength, 512}
Pretriggers == {0, 4}
EnableChoices == {Enables(1, 1, 0, 1)}

\* beacon_set_buffer_length
SetBufferLength(len) ==
  /\ ~(enable_locking /\ mut)
  /\ dev.buffer_length # len
  /\ dev' = [dev EXCEPT !.buffer_length = len]
  /\ UNCHANGED <<cfgVars, waitIdleVars, mut, hw, readVars, txq, wire>>

\* beacon_set_pretrigger: the command goes out and d->pretrigger = pretrigger
SetPretrigger(p) ==
  /\ ~(enable_locking /\ mut)
  /\ dev.pretrigger # p
  /\ dev' = [dev EXCEPT !.pretrigger = p]
  /\ UNCHANGED <<cfgVars, waitIdleVars, mut, hw, readVars, txq, wire>>

\* beacon_set_trigger_enables(d, enables, MASTER)
SetTriggerEnables(e) ==
  /\ ~(enable_locking /\ mut)
  /\ dev.trig_enable # EncodeEnables(e)
  /\ dev' = [dev EXCEPT !.trig_enable = EncodeEnables(e)]
  /\ UNCHANGED <<cfgVars, waitIdleVars, mut, hw, readVars, txq, wire>>

FirstEnv == {"late", "peak"}
RestEnv == {"nobuf", "late", "peak", "clkrst"}
Plans ==
  {Plan(0, "peak", "peak")} \cup {Plan(1, f, "peak") : f \in FirstEnv}
    \cup {Plan(n, f, r) : n \in {2, MAX_MISERY - 1, MAX_MISERY}, f \in FirstEnv, r \in RestEnv}

\* beacon_reset.  The alignment reads one event per pass that gets a buffer; it is run
\* as the first reset of a handle, which keeps d->event_counter finite.
ResetPlanned(type, plan) ==
  /\ type # "COUNTERS" => rd.kind = "none"
  /\ type = "COUNTERS" => plan = Plan(0, "peak", "peak")
  /\ ResetCall(type, plan)

InitReset == InitCommon /\ variant = "beacon" /\ has_slave = FALSE

NextReset ==
  \/ HwTrigger
  \/ \E len \in BufferLengths : SetBufferLength(len)
  \/ \E p \in Pretriggers : SetPretrigger(p)
  \/ \E e \in EnableChoices : SetTriggerEnables(e)
  \/ \E type \in ResetTypes, plan \in Plans : ResetPlanned(type, plan)

SpecReset == InitReset /\ [][NextReset]_vars

LastReset == rd.kind = "reset"
LastResetOK == rd.kind = "reset" /\ rd.ret = 0

\* C17: after a reset of any kind that returns 0 the read cursor is 0 and no buffer is
\* flagged ready, and the cursor names the buffer the board fills next.
C17_ResetLeavesCursorAtZero ==
  LastResetOK => rd.cur = 0 /\ rd.status = 0 /\ rd.cur = rd.fill

LastCalibration == rd.kind = "reset" /\ rd.type # "COUNTERS"

C21_ExhaustedBudgetStillResetsCounters ==
  (LastCalibration /\ ~rd.happy /\ rd.misery > MAX_MISERY)
    => rd.ret = 0 /\ rd.count = 0

(***************************************************************************)
(* The bus mutex: USING(d) ... DONE(d) around the SPI messages of an       *)
(* operation, src/beacondaq.c 192-193.  An operation is a sequence of      *)
(* locked sections, given by the number of SPI messages (flushes of the    *)
(* transfer list) each one issues.                                         *)
(*   read: beacon_read_multiple_ptr for one buffer, 1492-1530 the header   *)
(*         batch, 1657-1674 once per channel (no message when the frames   *)
(*         fit the list, up to two when the list fills), 1699-1701 the     *)
(*         final flush, then mark_buffers_done;                            *)
(*   sync: synchronized_command, 410-453;                                  *)
(*   status: beacon_read_status, 1759-1784.                                *)
(***************************************************************************)
BusSections(op) ==
  CASE op = "read" -> <<1, 0, 2, 1, 1>>
    [] op = "sync" -> IF NBD < 2 THEN <<1>> ELSE <<3>>
    [] op = "status" -> <<1>>

BusLog == IF rd.kind = "bus" THEN rd.log ELSE << >>
BusCalls == IF rd.kind = "bus" THEN rd.calls ELSE 0

\* A thread enters a public operation.
BusCall(t, op) ==
  /\ pc[t] = "idle"
  /\ BusCalls < MaxBusCalls
  /\ pc' = [pc EXCEPT ![t] = "USING"]
  /\ loc' = [loc EXCEPT ![t] = [op |-> op, call |-> BusCalls + 1, sec |-> 1, k |-> 0]]
  /\ rd' = [kind |-> "bus", calls |-> BusCalls + 1, log |-> BusLog]
  /\ UNCHANGED <<devVars, cancel_wait, wait_mut, hardware_next, ret, ready_out, obs, pre,
                 mut, hw, next_read_buffer, event_counter, hdrs, txq, wire>>

\* USING(d): if (d->enable_locking) pthread_mutex_lock(&d->mut);
BusLock_NoMutex(t) ==
  /\ pc[t] = "USING"
  /\ pc' = [pc EXCEPT ![t] = "locked"]
  /\ UNCHANGED <<devVars, cancel_wait, wait_mut, hardware_next, ret, ready_out, obs, pre,
                 mut, loc, rd, hw, next_read_buffer, event_counter, hdrs, txq, wire>>

BusLock(t) ==
  /\ pc[t] = "USING"
  /\ enable_locking => ~mut
  /\ mut' = enable_locking
  /\ pc' = [pc EXCEPT ![t] = "locked"]
  /\ UNCHANGED <<devVars, cancel_wait, wait_mut, hardware_next, ret, ready_out, obs, pre,
                 loc, rd, hw, next_read_buffer, event_counter, hdrs, txq, wire>>

\* One SPI message of the section: do_xfer / do_write reaches the board.
BusTransfer(t) ==
  /\ pc[t] = "locked"
  /\ loc[t].k < BusSections(loc[t].op)[loc[t].sec]
  /\ loc' = [loc EXCEPT ![t].k = @ + 1]
  /\ rd' = [rd EXCEPT !.log = Append(@, [t |-> t, op |-> loc[t].op, call |-> loc[t].call,
                                          sec |-> loc[t].sec])]
  /\ UNCHANGED <<devVars, cancel_wait, wait_mut, hardware_next, ret, ready_out, obs, pre,
                 mut, pc, hw, next_read_buffer, event_counter, hdrs, txq, wire>>

\* DONE(d): if (d->enable_locking) pthread_mutex_unlock(&d->mut); then the next
\* section, or the return.
BusUnlock(t) ==
  /\ pc[t] = "locked"
  /\ loc[t].k = BusSections(loc[t].op)[loc[t].sec]
  /\ mut' = FALSE
  /\ IF loc[t].sec < Len(BusSections(loc[t].op))
     THEN /\ pc' = [pc EXCEPT ![t] = "USING"]
          /\ loc' = [loc EXCEPT ![t].sec = @ + 1, ![t].k = 0]
     ELSE /\ pc' = [pc EXCEPT ![t] = "idle"]
          /\ loc' = [loc EXCEPT ![t] = LocInit]
  /\ UNCHANGED <<devVars, cancel_wait, wait_mut, hardware_next, ret, ready_out, obs, pre,
                 rd, hw, next_read_buffer, event_counter, hdrs, txq, wire>>

InitBus == InitCommon /\ variant = "beacon" /\ has_slave = FALSE
NextBus ==
  \/ \E t \in Threads, op \in {"read", "sync", "status"} : BusCall(t, op)
  \/ \E t \in Threads : BusLock(t)
  \/ \E t \in Threads : BusTransfer(t)
  \/ \E t \in Threads : BusUnlock(t)
SpecBus == InitBus /\ [][NextBus]_vars

\* No message of another call lies between messages i and k of the log.
Uninterrupted(i, k) ==
  \A j \in i..k : BusLog[j].call = BusLog[i].call

Closer == "t2"
CloseUnchanged == <<variant, has_slave, proc, dev, hardware_next, loc, ret, ready_out, obs,
                    pre, hw, next_read_buffer, event_counter, hdrs, txq, wire>>

\* beacon_cancel_wait(d);
CloseCancel ==
  /\ pc[Closer] = "idle" /\ rd.kind = "none"
  /\ cancel_wait' = 1
  /\ pc' = [pc EXCEPT ![Closer] = "close_bus"]
  /\ rd' = [kind |-> "close", inside |-> pc["t1"] # "idle", destroyed |-> {},
            freed |-> FALSE]
  /\ UNCHANGED <<enable_locking, wait_mut, mut, CloseUnchanged>>

\* USING(d); buffer_send; pthread_mutex_unlock(&d->mut); pthread_mutex_destroy(&d->mut);
CloseBus ==
  /\ pc[Closer] = "close_bus"
  /\ ~mut
  /\ rd' = [rd EXCEPT !.destroyed = @ \cup {"mut"}]
  /\ pc' = [pc EXCEPT ![Closer] = "close_trylock"]
  /\ UNCHANGED <<enable_locking, cancel_wait, wait_mut, mut, CloseUnchanged>>

\* if (pthread_mutex_trylock(&d->wait_mut)) { beacon_cancel_wait(d); ...
CloseTrylock ==
  /\ pc[Closer] = "close_trylock"
  /\ IF wait_mut
     THEN /\ cancel_wait' = 1
          /\ pc' = [pc EXCEPT ![Closer] = "close_lock"]
          /\ UNCHANGED wait_mut
     ELSE /\ wait_mut' = TRUE
          /\ pc' = [pc EXCEPT ![Closer] = "close_free"]
          /\ UNCHANGED cancel_wait
  /\ UNCHANGED <<enable_locking, mut, rd, CloseUnchanged>>

\* ... pthread_mutex_lock(&d->wait_mut); }
CloseLock ==
  /\ pc[Closer] = "close_lock"
  /\ ~wait_mut
  /\ wait_mut' = TRUE
  /\ pc' = [pc EXCEPT ![Closer] = "close_free"]
  /\ UNCHANGED <<enable_locking, cancel_wait, mut, rd, CloseUnchanged>>

\* pthread_mutex_unlock(&d->wait_mut); pthread_mutex_destroy(&d->wait_mut);
\* d->enable_locking = 0; the descriptors are unlocked and closed; free(d);
CloseFree ==
  /\ pc[Closer] = "close_free"
  /\ wait_mut' = FALSE
  /\ enable_locking' = FALSE
  /\ rd' = [rd EXCEPT !.destroyed = @ \cup {"wait_mut"}, !.freed = TRUE]
  /\ pc' = [pc EXCEPT ![Closer] = "closed"]
  /\ UNCHANGED <<cancel_wait, mut, CloseUnchanged>>

InitClose == InitCommon /\ enable_locking /\ has_slave = FALSE
NextClose ==
  \/ \E to \in Timeouts : rd.kind = "none" /\ WaitCall("t1", to)
  \/ WaitStep("t1")
  \/ HwTrigger
  \/ CloseCancel
  \/ CloseBus
  \/ CloseTrylock
  \/ CloseLock
  \/ CloseFree
SpecClose == InitClose /\ [][NextClose]_vars

\* C28: when close runs on a locking-enabled handle while another thread is inside
\* wait, the waiter returns cancelled, the waiter never takes the bus mutex after
\* close destroyed it, and it never runs on the handle after close freed it.
C28_CloseWaitsForWaiter ==
  /\ []((rd.kind = "close" /\ rd.inside /\ pc["t1"] = "idle")
          => ret["t1"] \in {"EINTR", "EAGAIN"})
  /\ [][(rd.kind = "close" /\ WaitStep("t1"))
          => (~rd.freed /\ ~(Poll("t1") /\ "mut" \in rd.destroyed))]_vars

(***************************************************************************)
(* open, close and set_board_id on the handles of one process.  busy is    *)
(* the set of device nodes another process holds locked during the call,   *)
(* fail the system call or step of open that the environment lets fail.    *)
(***************************************************************************)
OpenCall(master, slave, busy, fail) ==
  /\ \E h \in Slots : ~proc.handles[h].live
  /\ proc.board_id_counter + 2 <= MaxBoardId
  /\ slave # master
  /\ (variant = "nuphase" \/ slave = "none") => fail # "open_slave"
  /\ variant = "nuphase" => slave = "none"
  /\ \E r \in {IF variant = "beacon" THEN beacon_open(proc, master, slave, busy, fail)
                ELSE nuphase_open(proc, master, busy, fail)} :
       /\ proc' = r.proc
       /\ rd' = [kind |-> "open", ret |-> r.ret, fail |-> fail,
                 refused |-> (FlockRefused(proc, master, busy)
                              \/ (slave # "none" /\ FlockRefused(proc, slave, busy))),
                 held |-> ({master, slave} \cap proc.locks # {}),
                 master |-> master,
                 left_fds |-> r.left_fds,
                 left_locks |-> IF r.ret = 0 THEN r.proc.locks \ proc.locks ELSE {}]
  /\ UNCHANGED <<variant, enable_locking, has_slave, dev, waitIdleVars, mut, hw,
                 next_read_buffer, event_counter, hdrs, txq, wire>>

CloseCall(h) ==
  /\ proc.handles[h].live
  /\ proc' = CloseHandle(proc, h)
  /\ rd' = [kind |-> "close", ret |-> 0]
  /\ UNCHANGED <<variant, enable_locking, has_slave, dev, waitIdleVars, mut, hw,
                 next_read_buffer, event_counter, hdrs, txq, wire>>

SetBoardId(h, id, which) ==
  /\ proc.handles[h].live
  /\ proc' = set_board_id(proc, h, id, which)
  /\ rd' = [kind |-> "set_board_id", ret |-> 0]
  /\ UNCHANGED <<variant, enable_locking, has_slave, dev, waitIdleVars, mut, hw,
                 next_read_buffer, event_counter, hdrs, txq, wire>>

InitOpen == InitCommon /\ has_slave = FALSE
NextOpen ==
  \/ \E master \in Nodes, slave \in Nodes \cup {"none"}, busy \in SUBSET Nodes,
        fail \in OpenFails : OpenCall(master, slave, busy, fail)
  \/ \E h \in Slots : CloseCall(h)
  \/ \E h \in Slots, id \in {0, 1, MaxBoardId}, which \in {MASTER, SLAVE} :
        SetBoardId(h, id, which)
SpecOpen == InitOpen /\ [][NextOpen]_vars

\* C23: the process-wide board-id counter starts at 1 and no open or set_board_id
\* call ever lowers it.
C23_BoardIdCounterNeverDecreases ==
  /\ proc.board_id_counter = 1
  /\ [][proc'.board_id_counter >= proc.board_id_counter]_vars

Holders(node) == {h \in Slots : proc.handles[h].live
                               /\ node \in {proc.handles[h].master, proc.handles[h].slave}}

\* C24: at most one open handle holds a given device node; an open of a node that is
\* already locked returns null; after the holder closed, the node can be opened again.
C24_OneHolderPerNode ==
  /\ \A node \in Nodes : Cardinality(Holders(node)) <= 1
  /\ (rd.kind = "open" /\ rd.held) => rd.ret = 0

\* a node was held, closed and opened again, and a further open of it met the lock
C24_Witness ==
  /\ rd.kind = "open" /\ rd.held /\ rd.ret = 0
  /\ rd.master \in proc.released
  /\ Holders(rd.master) # {}

\* C25: open returns a handle exactly when opening, locking and the initial reset all
\* succeed; a failed open returns null and leaves none of the descriptors and locks it
\* acquired.
C25_OpenAllOrNothing ==
  rd.kind = "open" =>
    /\ rd.ret # 0 <=> (rd.fail = "none" /\ ~rd.refused)
    /\ rd.ret = 0 => (rd.left_fds = 0 /\ rd.left_locks = {})

(***************************************************************************)
(* Register frames computed by the driver: the per-ADC delay writes of an  *)
(* accepted alignment pass, src/beacondaq.c 2063-2135.                     *)
(***************************************************************************)
BN_NUM_CHAN == 8
ApplyBit == 16                 \* (1 << 4)

\* The accepted passes exercised: the peak sample index of each channel (given per
\* ADC as the peaks of its two channels) and the channel read mask (0xff is the one
\* beacon_open sets).
AlignCases ==
  {[max_i |-> [c \in 0..(BN_NUM_CHAN - 1) |-> pr[c \div 2][(c % 2) + 1]], mask |-> m] :
     pr \in [0..((BN_NUM_CHAN \div 2) - 1) ->
              {<<100, 101>>, <<104, 105>>, <<100, 102>>, <<103, 105>>, <<116, 116>>}],
     m \in {255, 63, 243}}

\* min_max_i: the smallest max_i[ibd][ichan] over the channels the mask enables
min_max_i(max_i, mask) ==
  CHOOSE x \in {max_i[c] : c \in {ch \in DOMAIN max_i : Bit(mask, ch) = 1}} :
    \A c \in DOMAIN max_i : Bit(mask, c) = 1 => x <= max_i[c]

\* The byte written to REG_ADC_DELAYS + iadc, or -1 when the pass writes nothing to
\* it.  The pair is skipped when its even channel is masked out;
\* uint8_t delay = (max_i[2*iadc] + max_i[2*iadc+1] - 2*min_max_i) / 2;
\* if (delay > 0) the frame carries (delay & 0xf) | (1 << 4).
AdcDelayWrite(max_i, mask, iadc) ==
  LET delay == ((max_i[2 * iadc] + max_i[(2 * iadc) + 1]
                   - (2 * min_max_i(max_i, mask))) \div 2) % 256
  IN IF Bit(mask, 2 * iadc) = 1 /\ delay > 0 THEN (delay % 16) + ApplyBit ELSE -1

\* An accepted pass: max_max_i - min_max_i is at most 16
AlignAccepted(c) ==
  /\ variant = "beacon" /\ rd.kind = "none"
  /\ \A c1, c2 \in DOMAIN c.max_i :
        (Bit(c.mask, c1) = 1 /\ Bit(c.mask, c2) = 1) => c.max_i[c1] - c.max_i[c2] <= 16
  /\ rd' = [kind |-> "adc_delays", max_i |-> c.max_i, mask |-> c.mask,
            wrote |-> [iadc \in 0..((BN_NUM_CHAN \div 2) - 1) |->
                         AdcDelayWrite(c.max_i, c.mask, iadc)]]
  /\ UNCHANGED <<devVars, waitIdleVars, mut, hw, next_read_buffer, event_counter, hdrs,
                 txq, wire>>

\* The value a configuration setter returns when its write to the master succeeds
\* or not (okm) and, with a slave, its write to the slave (oks).
\*   beacon_calpulse: ret = do_write(d->fd[i], buf) for each open board in turn;
\*                    return ret == BN_SPI_BYTES ? 0 : 1
\*   beacon_phased_trigger_readout: both do_write results dropped; return 0
\*   beacon_set_trigger_delays: three frames appended, return buffer_send(d, MASTER)
SetterReturn(setter, okm, oks) ==
  CASE setter = "calpulse" -> IF (IF has_slave THEN oks ELSE okm) THEN 0 ELSE 1
    [] setter = "phased_trigger_readout" -> 0
    [] setter = "set_trigger_delays" -> IF okm THEN 0 ELSE -1

SetterCall(setter, okm, oks) ==
  /\ rd.kind = "none"
  /\ ~has_slave => oks
  /\ setter = "set_trigger_delays" => oks
  /\ rd' = [kind |-> "setter", setter |-> setter, failed |-> ~(okm /\ oks),
            ret |-> SetterReturn(setter, okm, oks)]
  /\ UNCHANGED <<devVars, waitIdleVars, mut, hw, next_read_buffer, event_counter, hdrs,
                 txq, wire>>

\* uint8_t reverse_bits(uint8_t in): for (i = 0; i < 8; i++)
\*   if (in & (1 << i)) out = out | (1 << (7-i));
reverse_bits_Unchanged(in) == in

reverse_bits(in) ==
  (Bit(in, 0) * Pow2(7)) + (Bit(in, 1) * Pow2(6)) + (Bit(in, 2) * Pow2(5))
    + (Bit(in, 3) * Pow2(4)) + (Bit(in, 4) * Pow2(3)) + (Bit(in, 5) * Pow2(2))
    + (Bit(in, 6) * Pow2(1)) + (Bit(in, 7) * Pow2(0))

\* void reverse_buf_bits(uint8_t * buf) { reverse_bits(buf[3]); reverse_bits(buf[2]);
\* reverse_bits(buf[1]); }  The three results are dropped: buf is left as it was.
reverse_buf_bits(buf) ==
  LET dropped == <<reverse_bits(buf[4]), reverse_bits(buf[3]), reverse_bits(buf[2])>>
  IN buf

\* The three frames beacon_set_attenuation queues for a board:
\* { REG_ATTEN_012, a[2], a[1], a[0] }, { REG_ATTEN_345, a[5], a[4], a[3] },
\* { REG_ATTEN_67, 0, a[7], a[6] }, each passed through reverse_buf_bits.
AttenuationFrames(a) ==
  << reverse_buf_bits(<<"ATTEN_012", a[2], a[1], a[0]>>),
     reverse_buf_bits(<<"ATTEN_345", a[5], a[4], a[3]>>),
     reverse_buf_bits(<<"ATTEN_67", 0, a[7], a[6]>>) >>

\* beacon_get_attenuation: the three registers as read, each passed through
\* reverse_buf_bits, then attenuation[0] = attenuation_012[3], ...
AttenuationRead(regs) ==
  LET f == [k \in 1..3 |-> reverse_buf_bits(regs[k])]
  IN [c \in 0..7 |-> f[(c \div 3) + 1][4 - (c % 3)]]

ReverseBits(in) ==
  /\ rd.kind = "none"
  /\ rd' = [kind |-> "reverse_bits", in |-> in, out |-> reverse_bits(in),
            twice |-> reverse_bits(reverse_bits(in))]
  /\ UNCHANGED <<devVars, waitIdleVars, mut, hw, next_read_buffer, event_counter, hdrs,
                 txq, wire>>

\* set_attenuation(a) followed by get_attenuation on a board whose registers hold
\* the frames written.
SetAttenuation(a) ==
  /\ rd.kind = "none"
  /\ rd' = [kind |-> "attenuation", a |-> a, frames |-> AttenuationFrames(a),
            got |-> AttenuationRead(AttenuationFrames(a))]
  /\ UNCHANGED <<devVars, waitIdleVars, mut, hw, next_read_buffer, event_counter, hdrs,
                 txq, wire>>

InitRegs == InitCommon /\ variant = "beacon" /\ has_slave \in BOOLEAN
NextRegs ==
  \/ \E c \in AlignCases : AlignAccepted(c)
  \/ \E setter \in {"calpulse", "phased_trigger_readout", "set_trigger_delays"},
        okm \in BOOLEAN, oks \in BOOLEAN : SetterCall(setter, okm, oks)
  \/ \E in \in 0..255 : ReverseBits(in)
  \/ \E v \in {0, 1, 2, 128, 165}, step \in {0, 1, 16} :
        SetAttenuation([c \in 0..7 |-> (v + (c * step)) % 256])
SpecRegs == InitRegs /\ [][NextRegs]_vars

\* C22: on an accepted alignment pass every enabled ADC pair k has its delay register
\* written with (peak[2k] + peak[2k+1]) / 2 - min_peak in the value field and the
\* apply bit set, a delay of 0 included.
C22_EveryEnabledPairWritten ==
  rd.kind = "adc_delays" =>
    \A k \in DOMAIN rd.wrote :
      Bit(rd.mask, 2 * k) = 1 =>
        /\ rd.wrote[k] >= 0
        /\ rd.wrote[k] \div ApplyBit = 1
        /\ rd.wrote[k] % ApplyBit
             = ((rd.max_i[2 * k] + rd.max_i[(2 * k) + 1]) \div 2)
                 - min_max_i(rd.max_i, rd.mask)

\* C39: in an accepted pass (peak spread at most 16) the 4-bit delay field of
\* every frame written equals the delay computed for its pair of channels,
\* (max_i[2k] + max_i[2k+1] - 2 * min_max_i) / 2: neither & 0xf nor the 8-bit
\* variable changes it.
C39_DelayFieldIsComputedDelay ==
  rd.kind = "adc_delays" =>
    \A k \in DOMAIN rd.wrote :
      rd.wrote[k] >= 0 =>
        rd.wrote[k] - ApplyBit
          = (rd.max_i[2 * k] + rd.max_i[(2 * k) + 1]
               - (2 * min_max_i(rd.max_i, rd.mask))) \div 2

\* C26: a configuration setter returns a non-zero value whenever a write or ioctl it
\* issued to a board failed.
C26_SetterReportsFailedWrite ==
  (rd.kind = "setter" /\ rd.failed) => rd.ret # 0

\* C29: for every byte b, reverse_bits(reverse_bits(b)) = b and bit i of
\* reverse_bits(b) is bit 7-i of b; reverse_bits(0x80) = 0x01, reverse_bits(0xA5) = 0xA5.
C29_ReverseBitsMirrorsByte ==
  rd.kind = "reverse_bits" =>
    /\ rd.twice = rd.in
    /\ \A i \in 0..7 : Bit(rd.out, i) = Bit(rd.in, 7 - i)
    /\ rd.in = 128 => rd.out = 1
    /\ rd.in = 165 => rd.out = 165

C29_Witness == rd.kind = "reverse_bits" /\ rd.in = 128 /\ rd.out = 1 /\ rd.twice = 128

\* C30: each attenuator frame on the wire carries reverse_bits(v) for the attenuation
\* value v of each of its payload bytes, and get_attenuation reverses each payload
\* byte it reads.
C30_AttenuationFramesReversed ==
  rd.kind = "attenuation" =>
    \A c \in 0..7 :
      /\ rd.frames[(c \div 3) + 1][4 - (c % 3)] = reverse_bits(rd.a[c])
      /\ rd.got[c] = reverse_bits(rd.frames[(c \div 3) + 1][4 - (c % 3)])

(***************************************************************************)
(* start_time: the mean of the clock readings around the RESET_COUNTER     *)
(* write.  avg_time, src/beacondaq.c 1860-1878 and src/nuphasedaq.c        *)
(* 1116-1134 (the same text); beacon_reset 2163-2189.                      *)
(***************************************************************************)
NSEC_PER_SEC == 1000000000
HALF_SEC == 500000000
TimeSpec(sec, nsec) == [tv_sec |-> sec, tv_nsec |-> nsec]

\* The clock readings exercised.  The seconds are small, so that the uint32_t sum
\* tmp_sum of two of them does not wrap.
ClockSeconds == {10, 11}
ClockNanos == {0, 1, 100000, HALF_SEC - 1, HALF_SEC, NSEC_PER_SEC - 100000, NSEC_PER_SEC - 1}
ClockReadings == {TimeSpec(sec, nsec) : sec \in ClockSeconds, nsec \in ClockNanos}

\* x is not later than y (both normalized)
NotLater(x, y) == x.tv_sec < y.tv_sec \/ (x.tv_sec = y.tv_sec /\ x.tv_nsec <= y.tv_nsec)

\* if (avg.tv_nsec > 1e9) { avg.tv_sec++; avg.tv_nsec -= 1e9; }
Carry(avg) ==
  IF avg.tv_nsec > NSEC_PER_SEC
  THEN TimeSpec(avg.tv_sec + 1, avg.tv_nsec - NSEC_PER_SEC) ELSE avg

\* avg.tv_nsec = (A.tv_nsec + B.tv_nsec) / 2; tmp_sum = A.tv_sec + B.tv_sec;
\* avg.tv_sec = tmp_sum / 2; if (tmp_sum % 2 == 1) avg.tv_nsec += 5e8; then the carry
avg_time(A, B) ==
  Carry(TimeSpec((A.tv_sec + B.tv_sec) \div 2,
                 ((A.tv_nsec + B.tv_nsec) \div 2)
                   + (IF (A.tv_sec + B.tv_sec) % 2 = 1 THEN HALF_SEC ELSE 0)))

\* clock_gettime(CLOCK_REALTIME, &tbefore); the RESET_COUNTER write;
\* clock_gettime(CLOCK_REALTIME, &tafter)
ReadClocks(tbefore, tafter) ==
  /\ rd.kind # "clocks"
  /\ NotLater(tbefore, tafter)
  /\ rd' = [kind |-> "clocks", tbefore |-> tbefore, tafter |-> tafter]
  /\ UNCHANGED <<devVars, waitIdleVars, mut, hw, next_read_buffer, event_counter, hdrs,
                 txq, wire>>

\* d->start_time = avg_time(tbefore, tafter)
SetStartTime ==
  /\ rd.kind = "clocks"
  /\ rd' = [kind |-> "start_time", tbefore |-> rd.tbefore, tafter |-> rd.tafter,
            start_time |-> avg_time(rd.tbefore, rd.tafter)]
  /\ UNCHANGED <<devVars, waitIdleVars, mut, hw, next_read_buffer, event_counter, hdrs,
                 txq, wire>>

InitStartTime == InitCommon /\ has_slave = FALSE
NextStartTime ==
  \/ \E tbefore \in ClockReadings, tafter \in ClockReadings : ReadClocks(tbefore, tafter)
  \/ SetStartTime
SpecStartTime == InitStartTime /\ [][NextStartTime]_vars

\* C18: after reset(counters) start_time is normalized, 0 <= tv_nsec < 10^9, and lies
\* between the clock reading taken before the reset-counter write and the one taken
\* after it, also when the two readings straddle a second boundary.
C18_StartTimeNormalizedAndBetween ==
  rd.kind = "start_time"
    => /\ rd.start_time.tv_nsec >= 0 /\ rd.start_time.tv_nsec < NSEC_PER_SEC
       /\ NotLater(rd.tbefore, rd.start_time)
       /\ NotLater(rd.start_time, rd.tafter)

(***************************************************************************)
(* The trigger-time comparison of the slave pass, src/beacondaq.c 1575,    *)
(* 1618-1647.  A 48-bit trigger time is kept as the code reads it: two     *)
(* 24-bit registers, t.hi = trig_time[1] and t.lo = trig_time[0], combined *)
(* as trig_time[0] + (trig_time[1] << 24) in a uint64_t.                   *)
(***************************************************************************)
INT_MAX == 2147483647
TrigTime(hi, lo) == [hi |-> hi, lo |-> lo]

\* The 48-bit times the comparison is exercised on.
TrigTimes == {TrigTime(h, l) : h \in {0, 1, 128, 256}, l \in {0, 1, 2, 3, Pow24 - 1}}

\* (int)(a - b) for uint64_t a, b: the low 32 bits of the difference read as
\* a signed int.  Bits 24-31 come from the low byte of the difference of the high
\* registers, taken as a signed byte; the sum is folded back into the int range.
LowByteSigned(x) == IF x % 256 < 128 THEN x % 256 ELSE (x % 256) - 256
TruncToInt(a, b) ==
  IF LowByteSigned(a.hi - b.hi) = -128 /\ a.lo - b.lo < 0
    THEN INT_MAX + ((a.lo - b.lo) + 1)
    ELSE LowByteSigned(a.hi - b.hi) * Pow24 + (a.lo - b.lo)

\* abs(x) > 2 for an int x.  abs(INT_MIN) is undefined: either answer may come out.
AbsExceeds2(x) ==
  IF x = -INT_MAX - 1 THEN BOOLEAN
  ELSE {(IF x < 0 THEN -x ELSE x) > 2}

\* if (abs(hd->trig_time[ibd] - hd->trig_time[0]) > 2) ... sync_problem |= 4
TrigTimesDiffer(master, slave) == AbsExceeds2(TruncToInt(slave, master))

\* The bits the slave pass of one iteration adds to hd->sync_problem.  The pass is
\* the body of for (ibd = 0; ibd < NBD(d); ibd++) for ibd >= 1.
SlavePassBits(differ) == IF NBD < 2 THEN 0 ELSE IF differ THEN 4 ELSE 0

\* One comparison: the header of an event whose boards report master and slave.
CompareTrigTimes(master, slave) ==
  /\ has_slave
  /\ \E differ \in TrigTimesDiffer(master, slave) :
       rd' = [kind |-> "trigtime", master |-> master, slave |-> slave,
              differ |-> differ, sync_problem |-> SlavePassBits(differ)]
  /\ UNCHANGED <<devVars, waitIdleVars, mut, hw, next_read_buffer, event_counter, hdrs,
                 txq, wire>>

InitTrigTime == InitCommon /\ variant = "beacon" /\ has_slave = TRUE
NextTrigTime == \E master \in TrigTimes, slave \in TrigTimes : CompareTrigTimes(master, slave)
SpecTrigTime == InitTrigTime /\ [][NextTrigTime]_vars

\* The true distance of two 48-bit times is at most 2 ticks.
WithinTwoTicks(a, b) ==
  \/ a.hi = b.hi /\ a.lo - b.lo \in -2..2
  \/ a.hi = b.hi + 1 /\ (a.lo + Pow24) - b.lo <= 2
  \/ b.hi = a.hi + 1 /\ (b.lo + Pow24) - a.lo <= 2

\* C13: for every pair of 48-bit master and slave trigger times the trig-time bit of
\* sync_problem (value 4) is clear when the times are at most 2 ticks apart and set when
\* they are 3 or more apart, whichever board is earlier and however large the distance.
C13_TrigTimeBitMatchesDistance ==
  rd.kind = "trigtime"
    => ((rd.sync_problem \div 4) % 2 = 1 <=> ~WithinTwoTicks(rd.slave, rd.master))

(***************************************************************************)
(* The transfer batch and synchronized commands, src/beacondaq.c 360-455   *)
(* A batch state b holds the queued frames per board (d->buf, d->nused),   *)
(* the (board, frame) pairs put on the wire, and the summed return values. *)
(* The batches here stay far below MAX_XFERS, so buffer_append never has   *)
(* to flush.                                                               *)
(***************************************************************************)
REG_CLEAR_STATUS == 9
SYNC_ON == Frame("SYNC", 1)      \* buf_sync_on  = {REG_SYNC,0,0,1}
SYNC_OFF == Frame("SYNC", 0)     \* buf_sync_off = {REG_SYNC,0,0,0}

OnWire(which, frames) == [i \in 1..Len(frames) |-> [bd |-> which, frame |-> frames[i]]]

\* buffer_send: nothing to do on an empty batch; a short transfer returns -1 and
\* leaves nused alone; otherwise the frames are out and nused = 0.
BufferSend(b, which, ok) ==
  IF b.q[which] = << >> THEN b
  ELSE IF ok[which]
       THEN [b EXCEPT !.sent = @ \o OnWire(which, b.q[which]), !.q[which] = << >>]
       ELSE [b EXCEPT !.ret = @ - 1]

BufferAppend(b, which, f) == [b EXCEPT !.q[which] = Append(@, f)]

AppendReadRegister(b, which, address) ==
  BufferAppend(BufferAppend(b, which, Frame("SET_READ_REG", address)), which, Frame("RX", 0))

ReadAfter(b, which, reg) == IF reg # 0 THEN AppendReadRegister(b, which, reg) ELSE b

\* The two-board sequence: SYNC on to the master, the command to the slave, the
\* command and SYNC off to the master, then the optional register reads.
SynchronizedTwoBoards(b, cmd, reg, ok) ==
  BufferSend(
    BufferSend(
      ReadAfter(
        ReadAfter(
          BufferSend(
            BufferAppend(
              BufferAppend(
                BufferSend(
                  BufferAppend(
                    BufferSend(BufferAppend(b, MASTER, SYNC_ON), MASTER, ok),
                    SLAVE, cmd),
                  SLAVE, ok),
                MASTER, cmd),
              MASTER, SYNC_OFF),
            MASTER, ok),
          MASTER, reg),
        SLAVE, reg),
      SLAVE, ok),
    MASTER, ok)

\* synchronized_command: with NBD(d) < 2 "just do a normal command" on the master.
SynchronizedCommand(b, cmd, reg, ok) ==
  IF NBD < 2
  THEN BufferSend(ReadAfter(BufferAppend(b, MASTER, cmd), MASTER, reg), MASTER, ok)
  ELSE SynchronizedTwoBoards(b, cmd, reg, ok)

\* Commands that go through synchronized_command: pretrigger, attenuation apply,
\* global reset, ADC clock reset, counter reset, buffer clear.
SyncCommands ==
  {Frame("PRETRIGGER", 1), Frame("ATTEN_APPLY", 0), Frame("RESET_ALL", 1),
   Frame("ADC_CLK_RST", 0), Frame("RESET_COUNTER", 1), Frame("CLEAR", 1)}

SyncCommand(cmd, reg, ok) ==
  /\ ~(enable_locking /\ mut)
  /\ \E b \in {SynchronizedCommand([q |-> txq, sent |-> << >>, ret |-> 0], cmd, reg, ok)} :
       /\ Len(b.q[MASTER]) <= MaxQueue
       /\ Len(b.q[SLAVE]) <= MaxQueue
       /\ txq' = b.q
       /\ wire' = [cmd |-> cmd, reg |-> reg, ret |-> b.ret, sent |-> b.sent,
                   clean |-> (txq[MASTER] = << >> /\ txq[SLAVE] = << >>)]
  /\ UNCHANGED <<devVars, waitIdleVars, mut, hw, readVars>>

InitSync == InitCommon /\ variant = "beacon" /\ has_slave \in BOOLEAN

NextSync ==
  \E cmd \in SyncCommands, reg \in {0, REG_CLEAR_STATUS},
     ok \in [{MASTER, SLAVE} -> BOOLEAN] : SyncCommand(cmd, reg, ok)

SpecSync == InitSync /\ [][NextSync]_vars

\* C1: with a slave board present, a synchronized command that succeeds puts exactly
\* master:SYNC_ON, slave:CMD, master:CMD, master:SYNC_OFF on the wire, in this order.
C1_SyncBracketsSlave ==
  (has_slave /\ wire.cmd \in SyncCommands /\ wire.ret = 0 /\ wire.reg = 0 /\ wire.clean)
    => wire.sent = << [bd |-> MASTER, frame |-> SYNC_ON],
                      [bd |-> SLAVE, frame |-> wire.cmd],
                      [bd |-> MASTER, frame |-> wire.cmd],
                      [bd |-> MASTER, frame |-> SYNC_OFF] >>


(***************************************************************************)
(* The poll interval of a new handle.                                      *)
(***************************************************************************)

\* C31: on a handle on which set_poll_interval was never called the poll
\* interval is 500 microseconds, so a waiter that finds nothing ready sleeps
\* for that interval and does not merely yield the processor.
C31_FreshHandleSleeps ==
  \A t \in Threads :
    (variant = "beacon" /\ pc[t] = "sleep")
      => dev.poll_interval = DefaultPollInterval /\ PollStep(dev) = "usleep"


(***************************************************************************)
(* The transfer list at its bound, src/beacondaq.c 360-393 and             *)
(* src/nuphasedaq.c 248-280.  One caller appends transfers one after the   *)
(* other to the master's list and ends with a flush.                       *)
(***************************************************************************)
MAX_XFERS == 511
NP_SPI_BYTES == 4

\* xfer_buffer_send: int success = ioctl(...); if (!success) return -1;
\* the ioctl returns the bytes transferred, or -1 when it fails.
xfer_buffer_send(b, which, ok) ==
  IF b.q[which] = << >> THEN b
  ELSE LET success == IF ok[which] THEN Len(b.q[which]) * NP_SPI_BYTES ELSE -1
       IN IF success = 0
          THEN [b EXCEPT !.ret = @ - 1]
          ELSE [b EXCEPT !.sent = IF ok[which] THEN @ \o OnWire(which, b.q[which]) ELSE @,
                         !.q[which] = << >>]

Flush_SendsTwice(b, which, ok) ==
  [BufferSend(b, which, ok) EXCEPT !.sent = @ \o OnWire(which, b.q[which])]

Flush(b, which, ok) ==
  IF variant = "beacon" THEN BufferSend(b, which, ok) ELSE xfer_buffer_send(b, which, ok)

buffer_append_NoFlush(b, which, f, ok) == [b EXCEPT !.q[which] = Append(@, f)]

\* buffer_append, xfer_buffer_append: a full list is sent first, and a failed
\* send returns -1 before the transfer is stored.
buffer_append(b, which, f, ok) ==
  IF Len(b.q[which]) >= MAX_XFERS
  THEN LET s == Flush(b, which, ok)
       IN IF s.ret # b.ret THEN s ELSE [s EXCEPT !.q[which] = Append(@, f)]
  ELSE [b EXCEPT !.q[which] = Append(@, f)]

BatchStart == [kind |-> "batch", op |-> "none", n |-> 0, before |-> 0, ioctl |-> 0,
               failed |-> FALSE, errors |-> 0, ret |-> 0, appended |-> << >>,
               sent |-> << >>]

BatchNow == IF rd.kind = "batch" THEN rd ELSE BatchStart

BatchOk == {[bd \in {MASTER, SLAVE} |-> v] : v \in BOOLEAN}

BatchAppend(ok) ==
  /\ BatchNow.op # "flush" /\ BatchNow.n < MaxAppends
  /\ (Len(txq[MASTER]) >= MAX_XFERS /\ ~ok[MASTER]) => BatchNow.errors < MaxFailures
  /\ \E f \in {Frame("XFER", BatchNow.n + 1)} :
     \E b \in {buffer_append([q |-> txq, sent |-> BatchNow.sent, ret |-> 0], MASTER, f, ok)} :
       /\ txq' = b.q
       /\ rd' = [kind |-> "batch", op |-> "append", n |-> BatchNow.n + 1,
                 before |-> Len(txq[MASTER]),
                 ioctl |-> IF Len(txq[MASTER]) >= MAX_XFERS THEN Len(txq[MASTER]) ELSE 0,
                 failed |-> (Len(txq[MASTER]) >= MAX_XFERS /\ ~ok[MASTER]),
                 errors |-> IF Len(txq[MASTER]) >= MAX_XFERS /\ ~ok[MASTER]
                            THEN BatchNow.errors + 1 ELSE BatchNow.errors,
                 ret |-> b.ret,
                 appended |-> IF b.ret = 0 THEN Append(BatchNow.appended, f) ELSE BatchNow.appended,
                 sent |-> b.sent]
  /\ UNCHANGED <<devVars, waitIdleVars, mut, hw, next_read_buffer, event_counter, hdrs, wire>>

BatchFlush(ok) ==
  /\ BatchNow.op # "flush"
  /\ \E b \in {Flush([q |-> txq, sent |-> BatchNow.sent, ret |-> 0], MASTER, ok)} :
       /\ txq' = b.q
       /\ rd' = [BatchNow EXCEPT !.op = "flush", !.before = Len(txq[MASTER]),
                           !.ioctl = Len(txq[MASTER]),
                           !.failed = (txq[MASTER] # << >> /\ ~ok[MASTER]),
                           !.errors = IF txq[MASTER] # << >> /\ ~ok[MASTER]
                                      THEN @ + 1 ELSE @,
                           !.ret = b.ret, !.sent = b.sent]
  /\ UNCHANGED <<devVars, waitIdleVars, mut, hw, next_read_buffer, event_counter, hdrs, wire>>

InitBatch == InitCommon /\ ~enable_locking /\ has_slave = FALSE

NextBatch == \E ok \in BatchOk : BatchAppend(ok) \/ BatchFlush(ok)

SpecBatch == InitBatch /\ [][NextBatch]_vars


\* C32: the number of queued transfers of a board is always between 0 and 511,
\* no ioctl is handed more than 511 transfers, and an append to a full list
\* sends the list first, so that the new transfer is the only one queued.
C32_ListWithinBound ==
  /\ \A which \in {MASTER, SLAVE} : Len(txq[which]) \in 0..MAX_XFERS
  /\ rd.kind = "batch"
       => /\ rd.ioctl <= MAX_XFERS
          /\ (rd.op = "append" /\ rd.before = MAX_XFERS)
               => /\ rd.ioctl = MAX_XFERS
                  /\ rd.ret = 0 => Len(txq[MASTER]) = 1

C32_Witness ==
  rd.kind = "batch" /\ rd.op = "append" /\ rd.before = MAX_XFERS /\ rd.ret = 0

\* C33: a flush whose ioctl fails returns an error, a flush whose ioctl
\* succeeds returns success, and in both cases the list is empty afterwards.
C33_FlushReportsAndResets ==
  (rd.kind = "batch" /\ rd.op = "flush")
    => /\ rd.failed => rd.ret # 0
       /\ ~rd.failed => rd.ret = 0
       /\ txq[MASTER] = << >>


\* C38: appends to one list followed by a final flush, with every ioctl
\* succeeding, deliver exactly the appended transfers, in the order of the
\* appends and once each, wherever the list was sent because it was full.
C38_DeliveredIsAppended ==
  (rd.kind = "batch" /\ rd.op = "flush" /\ rd.errors = 0)
    => rd.sent = OnWire(MASTER, rd.appended) /\ Len(rd.appended) = rd.n

C38_Witness ==
  /\ rd.kind = "batch" /\ rd.op = "flush" /\ rd.errors = 0
  /\ Len(rd.appended) > MAX_XFERS

(***************************************************************************)
(* The cached readout mode and buffer of the master board,                 *)
(* src/beacondaq.c 578-597, 741-744, 1492-1530, 1653-1675, 1725-1734,      *)
(* 1759-1762.  The board keeps the value of the last REG_MODE and          *)
(* REG_BUFFER frame that reached it.  A waveform read is one frame here,   *)
(* annotated with the buffer the caller wants to read.                     *)
(***************************************************************************)
MODE_REGISTER == 0
MODE_WAVEFORMS == 1
CacheBuffers == {0, 1}

\* beacon_open: current_buf = -1, current_mode = -1; nothing set on the board yet.
CacheInit ==
  [kind |-> "cache", op |-> "open", mode |-> -1, buf |-> -1, bmode |-> -1, bbuf |-> -1,
   stray |-> FALSE, errors |-> 0, ret |-> 0]

CacheNow == IF rd.kind = "cache" THEN rd ELSE CacheInit

\* The board takes the frames in the order they arrive.
RECURSIVE BoardAfter(_, _)
BoardAfter(c, frames) ==
  IF frames = << >> THEN c
  ELSE LET f == Head(frames)
       IN BoardAfter(
            IF f.reg = "MODE" THEN [c EXCEPT !.bmode = f.arg]
            ELSE IF f.reg = "BUFFER" THEN [c EXCEPT !.bbuf = f.arg]
            ELSE IF f.reg = "WAVEFORM" /\ (c.bmode # MODE_WAVEFORMS \/ c.bbuf # f.arg)
                 THEN [c EXCEPT !.stray = TRUE]
            ELSE c,
            Tail(frames))

Frames(sent) == [k \in 1..Len(sent) |-> sent[k].frame]

CacheDone(op, c, b) ==
  /\ txq' = b.q
  /\ rd' = [BoardAfter([c EXCEPT !.stray = FALSE], Frames(b.sent))
              EXCEPT !.op = op, !.ret = b.ret, !.errors = c.errors - b.ret]
  /\ UNCHANGED <<devVars, waitIdleVars, mut, hw, next_read_buffer, event_counter, hdrs, wire>>

CacheBatch == [q |-> txq, sent |-> << >>, ret |-> 0]

CacheMayFail(ok) == ~ok[MASTER] => CacheNow.errors < MaxFailures

\* beacon_read_status: the mode frame, the scaler frames, one flush.
CacheReadStatus(ok) ==
  /\ CacheMayFail(ok)
  /\ CacheDone("status", [CacheNow EXCEPT !.mode = MODE_REGISTER],
       BufferSend(
         BufferAppend(
           BufferAppend(CacheBatch, MASTER, Frame("MODE", MODE_REGISTER)),
           MASTER, Frame("UPDATE_SCALERS", 0)),
         MASTER, ok))

\* The channel section of the readout: the mode frame only when the cache is
\* not MODE_WAVEFORMS, the buffer frame only when the cache holds another
\* buffer (the cache is not written there), then the channel and its data.
CacheChannel(c, b, ibuf) ==
  LET b1 == IF c.mode # MODE_WAVEFORMS
            THEN BufferAppend(b, MASTER, Frame("MODE", MODE_WAVEFORMS)) ELSE b
      b2 == IF c.buf # ibuf THEN BufferAppend(b1, MASTER, Frame("BUFFER", ibuf)) ELSE b1
  IN BufferAppend(BufferAppend(b2, MASTER, Frame("CHANNEL", 1)),
                  MASTER, Frame("WAVEFORM", ibuf))

\* beacon_read_multiple_ptr for one buffer and one enabled channel: the
\* metadata section ends with a flush, CHK leaves at the first failure.
CacheReadEvent(ibuf, ok1, ok2) ==
  /\ CacheMayFail(ok1) /\ (ok1[MASTER] => CacheMayFail(ok2))
  /\ \E c \in {[CacheNow EXCEPT !.buf = ibuf]} :
     \E m \in {BufferSend(
                 AppendReadRegister(BufferAppend(CacheBatch, MASTER, Frame("BUFFER", ibuf)),
                                    MASTER, REG_CLEAR_STATUS),
                 MASTER, ok1)} :
       IF m.ret # 0 THEN CacheDone("event", c, m)
       ELSE CacheDone("event", [c EXCEPT !.mode = MODE_WAVEFORMS],
                      BufferSend(CacheChannel(c, m, ibuf), MASTER, ok2))

\* beacon_read_raw
CacheReadRaw(buffer, ok) ==
  /\ CacheMayFail(ok)
  /\ CacheDone("raw", [CacheNow EXCEPT !.mode = MODE_WAVEFORMS, !.buf = buffer],
       BufferSend(
         BufferAppend(
           BufferAppend(
             BufferAppend(
               BufferAppend(CacheBatch, MASTER, Frame("MODE", MODE_WAVEFORMS)),
               MASTER, Frame("BUFFER", buffer)),
             MASTER, Frame("CHANNEL", 1)),
           MASTER, Frame("WAVEFORM", buffer)),
         MASTER, ok))

\* beacon_write: the caller's four bytes go to the board at once with
\* do_write, past the transfer list; the cache is not touched.
CacheWrite(f) ==
  /\ f.reg \in {"MODE", "BUFFER"}
  /\ CacheDone("write", CacheNow,
               [q |-> txq, sent |-> OnWire(MASTER, << f >>), ret |-> 0])

\* beacon_reset(d, BN_RESET_GLOBAL): buf_reset_all as a synchronized command;
\* the cache is not touched.  What the firmware does to its mode and buffer
\* registers on a reset is not in the source: the board keeps them here.
CacheReset(ok) ==
  /\ CacheMayFail(ok)
  /\ CacheDone("reset", CacheNow,
               SynchronizedCommand(CacheBatch, Frame("RESET_ALL", 1), 0, ok))

InitCache == InitCommon /\ variant = "beacon" /\ ~enable_locking /\ has_slave = FALSE

NextCache ==
  \/ \E ok \in BatchOk : CacheReadStatus(ok)
  \/ \E ibuf \in CacheBuffers, ok1 \in BatchOk, ok2 \in BatchOk : CacheReadEvent(ibuf, ok1, ok2)
  \/ \E buffer \in CacheBuffers, ok \in BatchOk : CacheReadRaw(buffer, ok)
  \/ \E f \in {Frame("MODE", MODE_REGISTER), Frame("MODE", MODE_WAVEFORMS)}
            \cup {Frame("BUFFER", k) : k \in CacheBuffers} : CacheWrite(f)
  \/ \E ok \in BatchOk : CacheReset(ok)

SpecCache == InitCache /\ [][NextCache]_vars

\* C34: after any sequence of operations, resets, raw writes and failed
\* flushes included, the cached mode and buffer are the mode and buffer last
\* set on the board, and every waveform read reaches a board that is in
\* waveforms mode with the intended buffer selected.
C34_CacheMatchesBoard ==
  rd.kind = "cache"
    => rd.mode = rd.bmode /\ rd.buf = rd.bbuf /\ ~rd.stray


(***************************************************************************)
(* The bus mutex at the return of an operation.                            *)
(***************************************************************************)

\* C35: with locking enabled, an operation that took the bus mutex has
\* released it when it returns, after a failed append or flush as well as
\* after a success: between two operations the bus mutex is free.
C35_BusMutexFreeAtReturn == enable_locking => ~mut


(***************************************************************************)
(* Operations that call a locking helper, src/beacondaq.c 410-455,         *)
(* 457-500, 1200-1246, 1717-1723.  An operation is the sequence of its     *)
(* USING(d) ("lock"), flushes ("xfer") and DONE(d) ("unlock") in program   *)
(* order, the helper's own USING and DONE included.  d->mut is initialised *)
(* with default attributes (pthread_mutex_init(&dev->mut, 0)): a thread    *)
(* that locks it again waits for itself.  One operation runs at a time.    *)
(***************************************************************************)
NestSection == << "lock", "xfer", "unlock" >>

\* synchronized_command: one USING ... DONE on either path
synchronized_command == NestSection

\* mark_buffers_done: its own USING ... DONE without a slave, otherwise
\* synchronized_command
mark_buffers_done == IF has_slave THEN synchronized_command ELSE NestSection

NestProgram(op) ==
  CASE op = "set_attenuation" ->
         NestSection \o (IF has_slave THEN NestSection ELSE << >>)
           \o << "lock" >> \o synchronized_command \o << "unlock" >>
    [] op = "clear_buffer" -> << "lock" >> \o mark_buffers_done \o << "unlock" >>
    [] op = "set_pretrigger" -> synchronized_command

NestOps == {"set_attenuation", "clear_buffer", "set_pretrigger"}

NestCalls == IF rd.kind = "nest" THEN rd.calls ELSE 0

NestCall(t, op) ==
  /\ \A u \in Threads : pc[u] = "idle"
  /\ NestCalls < MaxBusCalls
  /\ pc' = [pc EXCEPT ![t] = "NEST"]
  /\ loc' = [loc EXCEPT ![t] = [op |-> op, prog |-> NestProgram(op)]]
  /\ rd' = [kind |-> "nest", calls |-> NestCalls + 1]
  /\ UNCHANGED <<devVars, cancel_wait, wait_mut, hardware_next, ret, ready_out, obs, pre,
                 mut, hw, next_read_buffer, event_counter, hdrs, txq, wire>>

NestAdvance(t) ==
  /\ loc' = [loc EXCEPT ![t].prog = Tail(@)]
  /\ UNCHANGED <<devVars, cancel_wait, wait_mut, hardware_next, ret, ready_out, obs, pre,
                 pc, rd, hw, next_read_buffer, event_counter, hdrs, txq, wire>>

\* USING(d)
NestLock(t) ==
  /\ pc[t] = "NEST" /\ loc[t].prog # << >> /\ Head(loc[t].prog) = "lock"
  /\ enable_locking => ~mut
  /\ mut' = enable_locking
  /\ NestAdvance(t)

NestTransfer(t) ==
  /\ pc[t] = "NEST" /\ loc[t].prog # << >> /\ Head(loc[t].prog) = "xfer"
  /\ UNCHANGED mut
  /\ NestAdvance(t)

\* DONE(d)
NestUnlock(t) ==
  /\ pc[t] = "NEST" /\ loc[t].prog # << >> /\ Head(loc[t].prog) = "unlock"
  /\ mut' = FALSE
  /\ NestAdvance(t)

NestReturn(t) ==
  /\ pc[t] = "NEST" /\ loc[t].prog = << >>
  /\ pc' = [pc EXCEPT ![t] = "idle"]
  /\ loc' = [loc EXCEPT ![t] = LocInit]
  /\ UNCHANGED <<devVars, cancel_wait, wait_mut, hardware_next, ret, ready_out, obs, pre,
                 mut, rd, hw, next_read_buffer, event_counter, hdrs, txq, wire>>

NestStep(t) == NestLock(t) \/ NestTransfer(t) \/ NestUnlock(t) \/ NestReturn(t)

InitNest == InitCommon /\ variant = "beacon" /\ has_slave \in BOOLEAN

NextNest ==
  \/ \E t \in Threads, op \in NestOps : NestCall(t, op)
  \/ \E t \in Threads : NestLock(t)
  \/ \E t \in Threads : NestTransfer(t)
  \/ \E t \in Threads : NestUnlock(t)
  \/ \E t \in Threads : NestReturn(t)

SpecNest == InitNest /\ [][NextNest]_vars

\* A thread inside an operation keeps running.
SpecNestFair == SpecNest /\ \A t \in Threads : WF_vars(NestStep(t))

\* C36: no operation locks the bus mutex while its own thread holds it, so
\* set_attenuation and clear_buffer, called by one thread on an otherwise
\* idle handle, return.
C36_NestedCallsReturn ==
  \A t \in Threads :
    (pc[t] = "NEST" /\ loc[t].op \in {"set_attenuation", "clear_buffer"})
      ~> (pc[t] = "idle")


(***************************************************************************)
(* wait_for_and_read_multiple_events, src/beacondaq.c 1400-1415 and        *)
(* src/nuphasedaq.c 843-856: a wait without timeout on a local mask, then  *)
(* the readout of that mask.  The wait runs step by step as above; the     *)
(* step after its return takes the decision and does the readout.          *)
(***************************************************************************)
WaitAndReadCalls == IF rd.kind = "war" THEN rd.calls ELSE 0

WaitAndReadCall(t) ==
  /\ ret[t] = "none"
  /\ WaitAndReadCalls + Cardinality({u \in Threads : pc[u] # "idle" \/ ret[u] # "none"})
       < MaxWaitReads
  /\ WaitCall(t, -1)

\* beacon:  beacon_wait(d, &mask, -1, MASTER); if (mask) ...
\* nuphase: if (!nuphase_wait(d, &mask, -1) && mask) ...
\* mask is a local without initialiser: a wait that returns EBUSY or EAGAIN
\* has not written it, and it then holds any value (junk).
WaitAndReadDecide(t, junk, readok) ==
  /\ pc[t] = "idle" /\ ret[t] # "none"
  /\ \E wrote \in {ret[t] \in {"OK", "EINTR"}} :
     \E mask \in {IF wrote THEN ready_out[t] ELSE junk} :
     \E reads \in {IF variant = "beacon" THEN mask # 0 ELSE ret[t] = "OK" /\ mask # 0} :
       /\ wrote => junk = 0
       /\ ~reads => readok
       /\ rd' = [kind |-> "war", calls |-> WaitAndReadCalls + 1, waitret |-> ret[t], wrote |-> wrote, reads |-> reads,
                 mask |-> IF reads THEN mask ELSE 0,
                 ret |-> IF ~reads THEN 0 ELSE IF readok THEN PopCount(mask) ELSE -1]
       /\ hw' = IF reads /\ readok THEN HwCleared(hw, mask) ELSE hw
  /\ ret' = [ret EXCEPT ![t] = "none"]
  /\ UNCHANGED <<devVars, cancel_wait, wait_mut, hardware_next, pc, loc, ready_out, obs, pre,
                 mut, next_read_buffer, event_counter, hdrs, txq, wire>>

InitWaitRead == InitCommon /\ has_slave = FALSE

NextWaitRead ==
  \/ \E t \in Threads : WaitAndReadCall(t)
  \/ \E t \in Threads : WaitStep(t)
  \/ \E t \in Threads, junk \in 0..BUF_MASK, readok \in BOOLEAN :
       WaitAndReadDecide(t, junk, readok)
  \/ CancelWait
  \/ HwTrigger

SpecWaitRead == InitWaitRead /\ [][NextWaitRead]_vars

\* C37: wait_for_and_read_multiple_events reads no buffer and returns 0 when
\* its wait ends as cancelled (EINTR, EAGAIN) or busy (EBUSY), and the mask
\* it reads is the ready mask that the wait wrote.
C37_ReadsOnlyReportedMask ==
  rd.kind = "war"
    => /\ rd.waitret \in {"EINTR", "EAGAIN", "EBUSY"} => ~rd.reads /\ rd.ret = 0
       /\ rd.reads => rd.wrote


(***************************************************************************)
(* The waveform of one channel: loop_over_chunks_half_duplex,              *)
(* src/beacondaq.c 522-545 and 1669-1673, src/nuphasedaq.c 292-318 and     *)
(* 1017.  rd.xfers is the list of (tx, rx) transfers the loop appends, one *)
(* RAM address per step; an RX frame carries the offset of its four bytes  *)
(* in the channel's sample array.                                          *)
(***************************************************************************)
NUM_CHUNK == 4
BN_SPI_BYTES == 4

\* the address the readout passes as start_address
StartAddress == IF variant = "beacon" THEN 1 ELSE 0

\* where the bytes of pass iaddr, chunk ichunk are stored
\*   beacon:  result + BN_NUM_CHUNK * BN_SPI_BYTES * iaddr + ichunk * BN_SPI_BYTES
\*   nuphase: result + NP_NUM_CHUNK * iaddr + ichunk * NP_SPI_BYTES
ResultOffset(iaddr, ichunk) ==
  IF variant = "beacon"
  THEN (NUM_CHUNK * BN_SPI_BYTES * iaddr) + (ichunk * BN_SPI_BYTES)
  ELSE (NUM_CHUNK * iaddr) + (ichunk * NP_SPI_BYTES)

\* the transfers one chunk adds; nuphase sends buf_read before the receive
ChunkXfers(iaddr, ichunk) ==
  << Frame("CHUNK", ichunk) >>
    \o (IF variant = "nuphase" THEN << Frame("READ", 0) >> ELSE << >>)
    \o << Frame("RX", ResultOffset(iaddr, ichunk)) >>

RECURSIVE ChunksFrom(_, _)
ChunksFrom(iaddr, ichunk) ==
  IF ichunk >= NUM_CHUNK THEN << >>
  ELSE ChunkXfers(iaddr, ichunk) \o ChunksFrom(iaddr, ichunk + 1)

\* the readout of a channel starts: naddr = buffer_length / (SPI_BYTES * NUM_CHUNK)
ChannelBegin(len) ==
  /\ rd.kind = "none" \/ (rd.kind = "chunks" /\ rd.iaddr = rd.naddr)
  /\ rd' = [kind |-> "chunks", len |-> len,
            naddr |-> len \div (BN_SPI_BYTES * NUM_CHUNK), iaddr |-> 0, xfers |-> << >>]
  /\ UNCHANGED <<devVars, waitIdleVars, mut, hw, next_read_buffer, event_counter, hdrs, txq,
                 wire>>

\* one pass of for (iaddr = 0; iaddr < naddr; iaddr++)
ChannelAddress ==
  /\ rd.kind = "chunks" /\ rd.iaddr < rd.naddr
  /\ rd' = [rd EXCEPT !.iaddr = @ + 1,
                      !.xfers = @ \o << Frame("RAM_ADDR", StartAddress + rd.iaddr) >>
                                  \o ChunksFrom(rd.iaddr, 0)]
  /\ UNCHANGED <<devVars, waitIdleVars, mut, hw, next_read_buffer, event_counter, hdrs, txq,
                 wire>>

InitChunks == InitCommon /\ has_slave = FALSE

NextChunks ==
  \/ \E k \in 1..MaxAddresses : ChannelBegin(k * BN_SPI_BYTES * NUM_CHUNK)
  \/ ChannelAddress

SpecChunks == InitChunks /\ [][NextChunks]_vars

NotReadFrame(f) == f.reg # "READ"

\* C40: for a channel that was read the RAM addresses are
\* 0 .. buffer_length/(NUM_CHUNK*4) - 1 in ascending order, each a set-address
\* frame followed by NUM_CHUNK (pick-chunk, read) pairs, and the four bytes of
\* address a, chunk c are stored at offset (a*NUM_CHUNK + c)*4.
C40_AddressesAndOffsets ==
  (rd.kind = "chunks" /\ rd.iaddr = rd.naddr)
    => LET core == SelectSeq(rd.xfers, NotReadFrame)
           per == 1 + (2 * NUM_CHUNK)
       IN /\ Len(core) = (rd.len \div (NUM_CHUNK * 4)) * per
          /\ \A a \in 0..((rd.len \div (NUM_CHUNK * 4)) - 1) :
               /\ core[(a * per) + 1] = Frame("RAM_ADDR", a)
               /\ \A c \in 0..(NUM_CHUNK - 1) :
                    /\ core[(a * per) + 2 + (2 * c)] = Frame("CHUNK", c)
                    /\ core[(a * per) + 3 + (2 * c)] = Frame("RX", ((a * NUM_CHUNK) + c) * 4)

=============================================================================
